---- MODULE Spec2Model ----
(***************************************************************************)
(* Model of the dredd-go rules engine (package rule, src/rule/rule.go):    *)
(* rule nodes with a strategy tag and an ordered child list, AddChildren   *)
(* and its panicking variants, the single-node firing state machine        *)
(* (fire) and the recursive dispatcher (RuleRunner / runChildren).         *)
(*                                                                         *)
(* Hooks (onEval, onPreExecute, onExecute, onPostExecute) are opaque user  *)
(* callbacks: each invocation is one step whose result is drawn from the   *)
(* results a callback can return, and is recorded in `trace`.  A hook      *)
(* field that is nil is not invoked: its method returns the default and    *)
(* leaves nothing in `trace`.  `hooked` holds the fields that are set; the *)
(* setters (OnEval, OnEvalWithError, ...) change it.  Everything           *)
(* RuleRunner and fire do between two hook invocations (binding, the       *)
(* cancellation check, validation, loop control, returning through the     *)
(* recursion) is computed inside the step that triggers it.                *)
(*                                                                         *)
(* The shared store (RuleContext) is a Go map behind a sync.RWMutex; its   *)
(* contents are the function `store`.                                      *)
(*                                                                         *)
(* The specifications share the variables:                                 *)
(*   SpecBuild  tree construction: AddChildren, MustAddChildren,           *)
(*              WithChildren on freshly constructed rules;                 *)
(*   Spec       one RuleRunner call on a constructed tree whose rules have *)
(*              their four hooks, with an external Cancel of the           *)
(*              cancellation token;                                        *)
(*   SpecOrder, SpecFire  as Spec, on rules of which one may be short of   *)
(*              one hook, with the setters called before RuleRunner;       *)
(*   SpecStore  one goroutine calling the store's methods, one call per    *)
(*              step;                                                      *)
(*   SpecConc   several goroutines calling the store's methods, one step   *)
(*              per lock acquisition and one per map access and release;   *)
(*   SpecHook   a Run whose hooks call the store's methods, while other    *)
(*              goroutines call them too, and a setter of their rule;      *)
(*   SpecRerun  two RuleRunner calls on the same rules, the second with    *)
(*              another store, with hooks that are functions of the store; *)
(*   SpecReuse  two RuleRunner calls on the same rules and the same store, *)
(*              with a setter called between the two;                      *)
(*   SpecTwin   a path of Chain rules run under Chain, then the same path  *)
(*              of BestFirst rules run under BestFirst;                    *)
(*   SpecOther  rules with a tag that is neither Chain nor BestFirst;      *)
(*   SpecLoop   one RuleRunner call on a forest or on a ring of rules,     *)
(*              with the running goroutine scheduled fairly;               *)
(*   SpecNil    RuleRunner calls on rules built without hooks, with the    *)
(*              setters called on one of them between the calls.           *)
(***************************************************************************)
EXTENDS Integers, Sequences, FiniteSets

\* ---------------------------------------------------------------- bounds
\* number of rule objects constructed
MaxNodes == 3
\* total number of child slots filled by the construction calls
MaxEdges == 2
\* length of the rule list handed to the top-level RuleRunner call
MaxRoots == 3
\* number of goroutines using one store
MaxThreads == 2
\* largest value stored by the single goroutine of SpecStore
MaxVal == 1

\* ------------------------------------------------------------- constants
\* rule.go:17-19 (iota)
ChainRuleType == 0
BestFirstRuleType == 1
\* any other value of the integer type RuleType (rule.go:13)
OtherRuleType == 2

\* a nil *BaseRule / nil *RuleContext
Nil == 0

Nodes == 1..MaxNodes

\* `var zero T` (rule.go:62), for the value type int
Zero == 0
Vals == Zero..MaxVal
Threads == 1..MaxThreads
\* Store keys are strings: one that every goroutine uses (part_003:34,
\* "key"), and one per goroutine that only this goroutine uses
\* (part_000:43, "key_%d_%d").
SharedKey == <<"shared", 0>>
PrivateKey(t) == <<"key", t>>
KeyNames == {SharedKey} \cup {PrivateKey(t) : t \in Threads}

\* Errors are records: `base` is the sentinel errors.Is matches, `index` the
\* position a wrapping message names (-1 when the error is a bare sentinel).
Err(base) == [base |-> base, index |-> -1]
NoErr == Err("nil")
ErrChainRuleMultipleChildren == Err("chain rule can only have one child")
ErrChainRuleMultipleRules == Err("chain rule runner only supports one rule")
ErrNilRuleContext == Err("rule context cannot be nil")
ErrNilRule == Err("rule cannot be nil")
ErrInvalidRuleType == Err("invalid rule type")
\* fmt.Errorf("rule at index %d is nil: %w", i, ErrNilRule)
ErrNilRuleAt(i) == [base |-> ErrNilRule.base, index |-> i]
\* goContext.Err() of a cancelled context
Canceled == Err("context canceled")
\* errors a user hook may return
UserErrs == {Err("hook error 1"), Err("hook error 2")}

\* RuleContext objects: NewBaseRule gives rule n its own fresh store n; the
\* caller of RuleRunner creates one more.
OwnContext(n) == n
CallerContext == MaxNodes + 1
\* a second store the caller creates for another Run
OtherContext == MaxNodes + 2

\* context.Context values: nil, context.Background(), and one cancellable
\* context "tok" whose Done channel is closed once `canceled` is TRUE.
Background == "background"
Tok == "tok"
NilCtx == "nil"

VARIABLES
    ruleType,   \* BaseRule.ruleType, per rule
    children,   \* BaseRule.children, per rule: sequence of rules
    context,    \* BaseRule.context, per rule: the bound RuleContext
    goContext,  \* BaseRule.goContext, per rule
    lastCall,   \* the last AddChildren/MustAddChildren/WithChildren call
    runState,   \* "idle" | "running" | "returned": the top-level RuleRunner
    runArgs,    \* arguments of the top-level RuleRunner call
    stack,      \* active RuleRunner invocations, outermost first
    trace,      \* fire entries and hook invocations so far, with results
    result,     \* error returned by the top-level RuleRunner
    canceled,   \* tok has been cancelled
    store,      \* RuleContext.context of the caller's store: key -> value
    lastWrite,  \* per key, the last Set or Delete in lock order (history)
    out,        \* SpecStore: the last store call and what it returned
    threads,    \* SpecConc: per goroutine, its call in progress
    mu,         \* RuleContext.mu: holders of the read lock, the write lock
    other,      \* RuleContext.context of the caller's second store
    first,      \* SpecRerun: what the first of two Runs did (history)
    hooked      \* per rule, the hooks that are attached (non-nil On* fields)

ctxVars == <<lastWrite, out, threads, mu, first, hooked>>
storeVars == <<store, other, ctxVars>>
vars == <<ruleType, children, context, goContext, lastCall, runState,
          runArgs, stack, trace, result, canceled, storeVars>>

\* ----------------------------------------------------------------- helpers
RECURSIVE SeqsUpTo(_, _)
SeqsUpTo(S, n) ==
    IF n = 0 THEN {<<>>}
    ELSE LET shorter == SeqsUpTo(S, n - 1)
         IN shorter \cup {Append(s, x) : s \in {t \in shorter : Len(t) = n - 1}, x \in S}

RECURSIVE SumLen(_, _)
SumLen(c, n) == IF n = 0 THEN 0 ELSE Len(c[n]) + SumLen(c, n - 1)

\* number of child slots in use in the whole forest
TotalEdges(c) == SumLen(c, MaxNodes)

Range(s) == {s[i] : i \in 1..Len(s)}

\* 0-based position of the first nil entry of a rule list, -1 if none
FirstNil(rules) ==
    IF \E i \in 1..Len(rules) : rules[i] = Nil
    THEN (CHOOSE i \in 1..Len(rules) :
            rules[i] = Nil /\ \A j \in 1..(i - 1) : rules[j] # Nil) - 1
    ELSE -1

\* ------------------------------------------------------------------ store
\* The map of a RuleContext is a function from the keys present to their
\* values.  NewRuleContext (rule.go:50-52): make(map[string]T).
NewRuleContext == [k \in {} |-> Zero]

\* a lookup that reports a stored zero value as not found
GetResult_ZeroNotFound(m, key) ==
    IF key \in DOMAIN m /\ m[key] # Zero THEN [value |-> m[key], ok |-> TRUE]
    ELSE [value |-> Zero, ok |-> FALSE]

\* value, ok := rc.context[key] (rule.go:64-65)
GetResult(m, key) ==
    IF key \in DOMAIN m THEN [value |-> m[key], ok |-> TRUE]
    ELSE [value |-> Zero, ok |-> FALSE]

\* rc.context[key] = value (rule.go:82)
SetMap(m, key, value) ==
    [k \in DOMAIN m \cup {key} |-> IF k = key THEN value ELSE m[k]]

\* Delete emptying the map
DeleteMap_Clear(m, key) == NewRuleContext

\* delete(rc.context, key) (rule.go:89)
DeleteMap(m, key) == [k \in DOMAIN m \ {key} |-> m[k]]

\* Exists testing the stored value instead of the presence of the key
ExistsResult_NonZero(m, key) == key \in DOMAIN m /\ m[key] # Zero

\* _, ok := rc.context[key] (rule.go:96-97)
ExistsResult(m, key) == key \in DOMAIN m

RECURSIVE Orderings(_)
\* the sequences that list every element of S once
Orderings(S) ==
    IF S = {} THEN {<<>>}
    ELSE UNION {{<<x>> \o rest : rest \in Orderings(S \ {x})} : x \in S}

\* for k := range rc.context { keys = append(keys, k) } (rule.go:104-108):
\* Go ranges over a map in an unspecified order, so any order may come back.
KeysResults(m) == Orderings(DOMAIN m)

\* len(rc.context) (rule.go:115)
SizeResult(m) == Cardinality(DOMAIN m)

NoWrite == [op |-> "none", value |-> Zero]
NoOut == [op |-> "none", key |-> SharedKey, value |-> Zero, ok |-> FALSE,
          keys |-> <<>>, size |-> 0, panicked |-> FALSE]
\* a goroutine between two store calls
IdleThread == [pc |-> "idle", op |-> "none", key |-> SharedKey,
               value |-> Zero, ok |-> FALSE]
\* the zero RWMutex: no reader, no writer (0 is no goroutine)
Unlocked == [readers |-> {}, writer |-> 0]

\* the four user hooks of a rule (rule.go:142-145)
HookNames == {"eval", "preExecute", "execute", "postExecute"}
\* no first Run on record
NoFirst == [ran |-> FALSE, trace |-> <<>>, result |-> NoErr,
            seed |-> NewRuleContext, store |-> NewRuleContext]

NoCall == [op |-> "none", err |-> NoErr, panicked |-> FALSE, firstNil |-> -1]
NoArgs == [strategy |-> ChainRuleType, goCtx |-> NilCtx, ruleContext |-> Nil,
           rules |-> <<>>, canceled |-> FALSE, store |-> NewRuleContext]

\* ------------------------------------------------------------ construction
\* NewBaseRule (rule.go:485-498): type as given, fresh store, background
\* context (the child list starts empty: InitBuild).
NewBaseRule(types) ==
    /\ ruleType = types
    /\ context = [n \in Nodes |-> OwnContext(n)]
    /\ goContext = [n \in Nodes |-> Background]

\* AddChildren with the arity check applied to the new rules alone
AddChildrenErr_NewOnly(r, rules) ==
    IF ruleType[r] = ChainRuleType /\ Len(rules) > 1
    THEN ErrChainRuleMultipleChildren
    ELSE IF \E i \in 1..Len(rules) : rules[i] = Nil
         THEN ErrNilRule
         ELSE NoErr

\* AddChildren applying the arity limit to every rule that is not BestFirst
AddChildrenErr_AllButBestFirst(r, rules) ==
    IF ruleType[r] # BestFirstRuleType /\ Len(children[r]) + Len(rules) > 1
    THEN ErrChainRuleMultipleChildren
    ELSE IF \E i \in 1..Len(rules) : rules[i] = Nil
         THEN ErrNilRule
         ELSE NoErr

\* AddChildren (rule.go:272-285): the error it returns
AddChildrenErr(r, rules) ==
    IF ruleType[r] = ChainRuleType /\ Len(children[r]) + Len(rules) > 1
    THEN ErrChainRuleMultipleChildren
    ELSE IF \E i \in 1..Len(rules) : rules[i] = Nil
         THEN ErrNilRule
         ELSE NoErr

\* AddChildren appending rule by rule and stopping at the first nil
AddChildrenList_Incremental(r, rules) ==
    IF AddChildrenErr(r, rules) = NoErr THEN children[r] \o rules
    ELSE IF AddChildrenErr(r, rules) = ErrNilRule
         THEN children[r] \o SubSeq(rules, 1, FirstNil(rules))
         ELSE children[r]

\* AddChildren (rule.go:272-285): the child list it leaves
AddChildrenList(r, rules) ==
    IF AddChildrenErr(r, rules) = NoErr THEN children[r] \o rules ELSE children[r]

\* Argument lists of the construction calls: up to two entries, each a rule
\* or nil.
BuildArgs ==
    {<<>>} \cup {<<a>> : a \in Nodes \cup {Nil}}
           \cup {<<a, b>> : a, b \in Nodes \cup {Nil}}

BuildCall(op, r, rules, panics) ==
    LET e == AddChildrenErr(r, rules)
    IN /\ runState = "idle"
       /\ e = NoErr => TotalEdges(children) + Len(rules) <= MaxEdges
       /\ children' = [children EXCEPT ![r] = AddChildrenList(r, rules)]
       /\ TotalEdges(children') <= MaxEdges
       /\ lastCall' = [op |-> op, err |-> e, panicked |-> panics /\ e # NoErr,
                       firstNil |-> IF e = ErrNilRule THEN FirstNil(rules) ELSE -1]
       /\ UNCHANGED <<ruleType, context, goContext, runState, runArgs, stack,
                      trace, result, canceled, storeVars>>

AddChildren(r, rules) == BuildCall("AddChildren", r, rules, FALSE)

\* MustAddChildren returning the rule whatever AddChildren returned
MustAddChildren_Silent(r, rules) == BuildCall("MustAddChildren", r, rules, FALSE)

\* MustAddChildren (rule.go:289-294): panics with AddChildren's error
MustAddChildren(r, rules) == BuildCall("MustAddChildren", r, rules, TRUE)

\* WithChildren (rule.go:476-482): the option panics with AddChildren's error
WithChildren(r, rules) == BuildCall("WithChildren", r, rules, TRUE)

\* nothing has been called yet
InitIdle ==
    /\ lastCall = NoCall
    /\ runState = "idle"
    /\ runArgs = NoArgs
    /\ stack = <<>>
    /\ trace = <<>>
    /\ result = NoErr
    /\ canceled = FALSE
    /\ lastWrite = [k \in KeyNames |-> NoWrite]
    /\ out = NoOut
    /\ threads = [t \in Threads |-> IdleThread]
    /\ mu = Unlocked
    /\ first = NoFirst

\* the caller's stores are fresh from NewRuleContext (rule.go:50-52)
InitCommon ==
    /\ InitIdle
    /\ store = NewRuleContext
    /\ other = NewRuleContext

\* Construction calls treat all rules of one type alike, so the Chain rules
\* are numbered first.
InitBuild ==
    /\ \E types \in [Nodes -> {ChainRuleType, BestFirstRuleType}] :
         /\ \A n, m \in Nodes : n < m => types[n] <= types[m]
         /\ NewBaseRule(types)
    /\ children = [n \in Nodes |-> <<>>]
    /\ InitCommon
    /\ hooked = [n \in Nodes |-> HookNames]

NextBuild ==
    \E r \in Nodes, rules \in BuildArgs :
        \/ AddChildren(r, rules)
        \/ MustAddChildren(r, rules)
        \/ WithChildren(r, rules)

SpecBuild == InitBuild /\ [][NextBuild]_vars

\* -------------------------------------------------------------------- run
\* r is in the child list of some rule
IsChild(c, r) == \E p \in Nodes : \E i \in 1..Len(c[p]) : c[p][i] = r

\* Child lists of the rules n..MaxNodes in which every child has a larger
\* number than its parent, as a sequence (entry k holds rule n+k-1's list).
RECURSIVE ForwardLists(_)
ForwardLists(n) ==
    IF n > MaxNodes THEN {<<>>}
    ELSE {<<kids>> \o rest : kids \in SeqsUpTo((n + 1)..MaxNodes, MaxNodes - n),
                             rest \in ForwardLists(n + 1)}

\* Forests handed to RuleRunner: what AddChildren can have built (no nil
\* child, at most one child under a Chain rule), every rule in at most one
\* child slot, rules numbered so that a child has a larger number than its
\* parent.
BuiltForests(types) ==
    {c \in ForwardLists(1) :
        /\ \A n \in Nodes : types[n] = ChainRuleType => Len(c[n]) <= 1
        /\ \A n, m \in Nodes : \A i \in 1..Len(c[n]), j \in 1..Len(c[m]) :
              c[n][i] = c[m][j] => n = m /\ i = j}

\* Rule lists handed to the top-level call: the rules 1, 2, ... in order,
\* none of them a child of another rule, with nil entries anywhere.
RootLists ==
    {rs \in SeqsUpTo(Nodes \cup {Nil}, MaxRoots) :
        LET nn == SelectSeq(rs, LAMBDA x : x # Nil)
        IN \A i \in 1..Len(nn) : nn[i] = i /\ ~IsChild(children, i)}

Event(r, hook, should, err) == [rule |-> r, hook |-> hook, should |-> should, err |-> err]

Frame(strategy, goCtx, rc, rules) ==
    [strategy |-> strategy, goCtx |-> goCtx, ruleContext |-> rc,
     rules |-> rules, i |-> 1, pc |-> "fire"]

Top == stack[Len(stack)]
\* the rule the innermost RuleRunner invocation is firing
Cur == Top.rules[Top.i]
At(pc) == runState = "running" /\ stack # <<>> /\ Top.pc = pc
Goto(pc) == [stack EXCEPT ![Len(stack)].pc = pc]

\* <-ctx.Done() is ready (rule.go:298-304)
Done(ctx) == ctx = Tok /\ canceled

\* RuleRunner running the first rule of an over-long Chain list
RunnerEntry_Truncating(strategy, rc, rules) ==
    IF rc = Nil THEN [returns |-> TRUE, err |-> ErrNilRuleContext]
    ELSE IF Len(rules) = 0 THEN [returns |-> TRUE, err |-> NoErr]
    ELSE IF \E i \in 1..Len(rules) : rules[i] = Nil
    THEN [returns |-> TRUE, err |-> ErrNilRuleAt(FirstNil(rules))]
    ELSE IF strategy \in {ChainRuleType, BestFirstRuleType}
    THEN [returns |-> FALSE, err |-> NoErr]
    ELSE [returns |-> TRUE, err |-> ErrInvalidRuleType]

\* RuleRunner testing for an empty rule list before the nil store
RunnerEntry_EmptyFirst(strategy, rc, rules) ==
    IF Len(rules) = 0 THEN [returns |-> TRUE, err |-> NoErr]
    ELSE IF rc = Nil THEN [returns |-> TRUE, err |-> ErrNilRuleContext]
    ELSE IF \E i \in 1..Len(rules) : rules[i] = Nil
    THEN [returns |-> TRUE, err |-> ErrNilRuleAt(FirstNil(rules))]
    ELSE IF strategy = ChainRuleType
    THEN IF Len(rules) > 1
         THEN [returns |-> TRUE, err |-> ErrChainRuleMultipleRules]
         ELSE [returns |-> FALSE, err |-> NoErr]
    ELSE IF strategy = BestFirstRuleType
    THEN [returns |-> FALSE, err |-> NoErr]
    ELSE [returns |-> TRUE, err |-> ErrInvalidRuleType]

\* RuleRunner counting the rules of a Chain call before it looks for nil ones
RunnerEntry_ArityFirst(strategy, rc, rules) ==
    IF rc = Nil THEN [returns |-> TRUE, err |-> ErrNilRuleContext]
    ELSE IF Len(rules) = 0 THEN [returns |-> TRUE, err |-> NoErr]
    ELSE IF strategy = ChainRuleType /\ Len(rules) > 1
    THEN [returns |-> TRUE, err |-> ErrChainRuleMultipleRules]
    ELSE IF \E i \in 1..Len(rules) : rules[i] = Nil
    THEN [returns |-> TRUE, err |-> ErrNilRuleAt(FirstNil(rules))]
    ELSE IF strategy \in {ChainRuleType, BestFirstRuleType}
    THEN [returns |-> FALSE, err |-> NoErr]
    ELSE [returns |-> TRUE, err |-> ErrInvalidRuleType]

\* RuleRunner requiring exactly one rule of a Chain call
RunnerEntry_ChainExactlyOne(strategy, rc, rules) ==
    IF rc = Nil THEN [returns |-> TRUE, err |-> ErrNilRuleContext]
    ELSE IF strategy = ChainRuleType /\ Len(rules) # 1
    THEN [returns |-> TRUE, err |-> ErrChainRuleMultipleRules]
    ELSE IF Len(rules) = 0 THEN [returns |-> TRUE, err |-> NoErr]
    ELSE IF \E i \in 1..Len(rules) : rules[i] = Nil
    THEN [returns |-> TRUE, err |-> ErrNilRuleAt(FirstNil(rules))]
    ELSE IF strategy \in {ChainRuleType, BestFirstRuleType}
    THEN [returns |-> FALSE, err |-> NoErr]
    ELSE [returns |-> TRUE, err |-> ErrInvalidRuleType]

\* RuleRunner rejecting an unknown strategy before it looks at the list
RunnerEntry_StrategyFirst(strategy, rc, rules) ==
    IF rc = Nil THEN [returns |-> TRUE, err |-> ErrNilRuleContext]
    ELSE IF strategy \notin {ChainRuleType, BestFirstRuleType}
    THEN [returns |-> TRUE, err |-> ErrInvalidRuleType]
    ELSE IF Len(rules) = 0 THEN [returns |-> TRUE, err |-> NoErr]
    ELSE IF \E i \in 1..Len(rules) : rules[i] = Nil
    THEN [returns |-> TRUE, err |-> ErrNilRuleAt(FirstNil(rules))]
    ELSE IF strategy = ChainRuleType /\ Len(rules) > 1
    THEN [returns |-> TRUE, err |-> ErrChainRuleMultipleRules]
    ELSE [returns |-> FALSE, err |-> NoErr]

\* RuleRunner's checks before it fires anything (rule.go:359-378, 400-402):
\* whether it returns at once, and with which error.
RunnerEntry(strategy, rc, rules) ==
    IF rc = Nil THEN [returns |-> TRUE, err |-> ErrNilRuleContext]
    ELSE IF Len(rules) = 0 THEN [returns |-> TRUE, err |-> NoErr]
    ELSE IF \E i \in 1..Len(rules) : rules[i] = Nil
    THEN [returns |-> TRUE, err |-> ErrNilRuleAt(FirstNil(rules))]
    ELSE IF strategy = ChainRuleType
    THEN IF Len(rules) > 1
         THEN [returns |-> TRUE, err |-> ErrChainRuleMultipleRules]
         ELSE [returns |-> FALSE, err |-> NoErr]
    ELSE IF strategy = BestFirstRuleType
    THEN [returns |-> FALSE, err |-> NoErr]
    ELSE [returns |-> TRUE, err |-> ErrInvalidRuleType]

\* fire returning true after executing, whatever the tag
ExecutedContinue_Always(r) == TRUE

\* fire returning false after executing, whatever the tag
ExecutedContinue_Never(r) == FALSE

\* What fire returns once the rule has executed and runChildren returned
\* nil (rule.go:325/349 for Chain, rule.go:344 for BestFirst).
ExecutedContinue(r) == ruleType[r] = ChainRuleType

\* the Chain branch of RuleRunner dropping the error of fire
AfterFire_ChainErrDropped(f, continueLoop, err) ==
    IF f.strategy = ChainRuleType THEN [next |-> FALSE, err |-> NoErr]
    ELSE IF err # NoErr THEN [next |-> FALSE, err |-> err]
    ELSE IF ~continueLoop THEN [next |-> FALSE, err |-> NoErr]
    ELSE IF f.i < Len(f.rules) THEN [next |-> TRUE, err |-> NoErr]
    ELSE [next |-> FALSE, err |-> NoErr]

\* the BestFirst loop going on to the next rule whatever fire returned
AfterFire_IgnoreStop(f, continueLoop, err) ==
    IF f.strategy = ChainRuleType THEN [next |-> FALSE, err |-> err]
    ELSE IF err # NoErr THEN [next |-> FALSE, err |-> err]
    ELSE IF f.i < Len(f.rules) THEN [next |-> TRUE, err |-> NoErr]
    ELSE [next |-> FALSE, err |-> NoErr]

\* RuleRunner's loop control after r.fire() returned (rule.go:383-384 for
\* Chain, rule.go:390-398 for BestFirst).
AfterFire(f, continueLoop, err) ==
    IF f.strategy = ChainRuleType THEN [next |-> FALSE, err |-> err]
    ELSE IF err # NoErr THEN [next |-> FALSE, err |-> err]
    ELSE IF ~continueLoop THEN [next |-> FALSE, err |-> NoErr]
    ELSE IF f.i < Len(f.rules) THEN [next |-> TRUE, err |-> NoErr]
    ELSE [next |-> FALSE, err |-> NoErr]

\* fire dropping the error of runChildren
AfterChildren_ErrDropped(r, err) ==
    [continueLoop |-> ExecutedContinue(r), err |-> NoErr]

\* fire asking for the next sibling when none of the rule's children executed
AfterChildren_Backtrack(r, err) ==
    IF err # NoErr THEN [continueLoop |-> FALSE, err |-> err]
    ELSE [continueLoop |->
            \/ ExecutedContinue(r)
            \/ ~\E i \in 1..Len(trace) :
                  /\ trace[i].hook = "preExecute"
                  /\ \E k \in 1..Len(children[r]) : trace[i].rule = children[r][k],
          err |-> NoErr]

\* What fire returns when runChildren returned err (rule.go:322-325, 341-344,
\* 349).
AfterChildren(r, err) ==
    IF err # NoErr THEN [continueLoop |-> FALSE, err |-> err]
    ELSE [continueLoop |-> ExecutedContinue(r), err |-> NoErr]

RECURSIVE FireReturn(_, _, _)
RECURSIVE RunnerReturn(_, _)
\* The fire of the innermost invocation's current rule returned
\* (continueLoop, err): go on with the next sibling, or return from this
\* RuleRunner invocation.
FireReturn(stk, continueLoop, err) ==
    LET f == stk[Len(stk)]
        rest == SubSeq(stk, 1, Len(stk) - 1)
        a == AfterFire(f, continueLoop, err)
    IN IF a.next
       THEN [stack |-> Append(rest, [f EXCEPT !.i = @ + 1, !.pc = "fire"]),
             returned |-> FALSE, err |-> NoErr]
       ELSE RunnerReturn(rest, a.err)

\* A RuleRunner invocation returned err to its caller: the program (empty
\* stack) or runChildren inside the fire of the caller's current rule.
RunnerReturn(stk, err) ==
    IF stk = <<>> THEN [stack |-> <<>>, returned |-> TRUE, err |-> err]
    ELSE LET f == stk[Len(stk)]
             a == AfterChildren(f.rules[f.i], err)
         IN FireReturn(stk, a.continueLoop, a.err)

Resume(o) ==
    /\ stack' = o.stack
    /\ runState' = IF o.returned THEN "returned" ELSE "running"
    /\ result' = IF o.returned THEN o.err ELSE result

\* The program calls RuleRunner (rule.go:358-403) on the constructed tree.
RunnerCall(strategy, goCtx, rc, rules) ==
    /\ runArgs' = [strategy |-> strategy, goCtx |-> goCtx, ruleContext |-> rc,
                   rules |-> rules, canceled |-> canceled, store |-> store]
    /\ LET e == RunnerEntry(strategy, rc, rules)
       IN IF e.returns
          THEN Resume([stack |-> <<>>, returned |-> TRUE, err |-> e.err])
          ELSE Resume([stack |-> <<Frame(strategy, goCtx, rc, rules)>>,
                       returned |-> FALSE, err |-> NoErr])
    /\ UNCHANGED <<ruleType, children, context, goContext, lastCall, canceled,
                   store, other, lastWrite, out, threads, mu, hooked>>

RuleRunner(strategy, goCtx, rc, rules) ==
    /\ runState = "idle"
    /\ RunnerCall(strategy, goCtx, rc, rules)
    /\ UNCHANGED <<trace, first>>

\* fire without the cancellation check
FireEntryErr_NoCancel(r, ctx) ==
    IF ruleType[r] \notin {ChainRuleType, BestFirstRuleType} THEN ErrInvalidRuleType
    ELSE NoErr

\* fire looking at the tag before it looks at the token
FireEntryErr_TagFirst(r, ctx) ==
    IF ruleType[r] \notin {ChainRuleType, BestFirstRuleType} THEN ErrInvalidRuleType
    ELSE IF ctx # NilCtx /\ Done(ctx) THEN Canceled
    ELSE NoErr

\* fire refusing a rule that an earlier Run has bound to a store
FireEntryErr_Once(r, ctx) ==
    IF context[r] # OwnContext(r) THEN ErrNilRuleContext
    ELSE IF ctx # NilCtx /\ Done(ctx) THEN Canceled
    ELSE IF ruleType[r] \notin {ChainRuleType, BestFirstRuleType} THEN ErrInvalidRuleType
    ELSE NoErr

\* What fire does on entry (rule.go:296-306, 346-348): the error it returns
\* before any hook, or NoErr when it goes on to eval.
FireEntryErr(r, ctx) ==
    IF ctx # NilCtx /\ Done(ctx) THEN Canceled
    ELSE IF ruleType[r] \notin {ChainRuleType, BestFirstRuleType} THEN ErrInvalidRuleType
    ELSE NoErr

\* RuleRunner binds the store and the context to the next rule and calls
\* its fire (rule.go:380-383, 387-390), which checks cancellation and its
\* type tag (rule.go:296-306, 346-348).
\* SetRuleContext keeping the store a rule was bound to by an earlier Run
SetRuleContext_Once(r, rc) == IF context[r] = OwnContext(r) THEN rc ELSE context[r]

\* r.context after r.SetRuleContext(rc) (rule.go:153-155, 301)
SetRuleContext(r, rc) == rc

\* RuleRunner binding every rule of its list before it fires the first
BoundNow_WholeList(f) == {f.rules[k] : k \in 1..Len(f.rules)}

\* The rules RuleRunner binds before a fire: the rule it is about to fire
\* and no other (rule.go:379-382, 387-390).
BoundNow(f) == {f.rules[f.i]}

Fire ==
    /\ At("fire")
    /\ context' = [n \in Nodes |->
                     IF n \in BoundNow(Top) THEN SetRuleContext(n, Top.ruleContext)
                     ELSE context[n]]
    /\ goContext' = [n \in Nodes |->
                       IF n \in BoundNow(Top) THEN Top.goCtx ELSE goContext[n]]
    /\ trace' = Append(trace, Event(Cur, "fire", FALSE, NoErr))
    /\ LET e == FireEntryErr(Cur, goContext'[Cur])
       IN IF e # NoErr
          THEN Resume(FireReturn(stack, FALSE, e))
          ELSE Resume([stack |-> Goto("eval"), returned |-> FALSE, err |-> NoErr])
    /\ UNCHANGED <<ruleType, children, lastCall, runArgs, canceled, storeVars>>

\* fire executing whenever eval returned no error
AfterEval_IgnoreShould(should, err) ==
    IF err # NoErr THEN [execute |-> FALSE, continueLoop |-> FALSE, err |-> err]
    ELSE [execute |-> TRUE, continueLoop |-> FALSE, err |-> NoErr]

\* fire testing ShouldExecute before the error
AfterEval_ShouldFirst(should, err) ==
    IF should THEN [execute |-> TRUE, continueLoop |-> FALSE, err |-> NoErr]
    ELSE IF err # NoErr THEN [execute |-> FALSE, continueLoop |-> FALSE, err |-> err]
    ELSE [execute |-> FALSE, continueLoop |-> TRUE, err |-> NoErr]

\* fire executing when eval returned false and skipping when it returned true
AfterEval_Negated(should, err) ==
    IF err # NoErr THEN [execute |-> FALSE, continueLoop |-> FALSE, err |-> err]
    ELSE IF should THEN [execute |-> FALSE, continueLoop |-> TRUE, err |-> NoErr]
    ELSE [execute |-> TRUE, continueLoop |-> FALSE, err |-> NoErr]

\* fire ending the search when eval returned false
AfterEval_SkipStops(should, err) ==
    IF err # NoErr THEN [execute |-> FALSE, continueLoop |-> FALSE, err |-> err]
    ELSE IF should THEN [execute |-> TRUE, continueLoop |-> FALSE, err |-> NoErr]
    ELSE [execute |-> FALSE, continueLoop |-> FALSE, err |-> NoErr]

\* What fire does with eval's result (rule.go:308-312, 325, 327-331, 349):
\* "execute" to go on to preExecute, otherwise the pair it returns.
AfterEval(should, err) ==
    IF err # NoErr THEN [execute |-> FALSE, continueLoop |-> FALSE, err |-> err]
    ELSE IF should THEN [execute |-> TRUE, continueLoop |-> FALSE, err |-> NoErr]
    ELSE [execute |-> FALSE, continueLoop |-> TRUE, err |-> NoErr]

\* A hook receives the rule and may write to the store the rule is bound
\* to: here it leaves the store alone or sets the shared key to its rule
\* (main.go:78, ctx.GetRuleContext().Set("executed", "rule1")).
HookWrites(r) ==
    \E writes \in BOOLEAN :
        IF context[r] = OtherContext
        THEN /\ other' = IF writes THEN SetMap(other, SharedKey, r) ELSE other
             /\ store' = store
        ELSE /\ store' = IF writes THEN SetMap(store, SharedKey, r) ELSE store
             /\ other' = other

\* a rule without an eval hook being skipped
DefaultResult_SkipEval(hook) == [should |-> FALSE, err |-> NoErr]

\* a rule without a hook failing
DefaultResult_Fails(hook) == [should |-> TRUE, err |-> ErrNilRule]

\* What eval/preExecute/execute/postExecute return when the hook field is
\* nil (rule.go:169-171, 190-192, 212-214, 234-236).
DefaultResult(hook) == [should |-> TRUE, err |-> NoErr]

\* eval returned (should, err) to fire (rule.go:308-311, 327-330); the
\* user's hook is on the trace when it was invoked.
EvalReturns(invoked, should, err) ==
    /\ trace' = IF invoked THEN Append(trace, Event(Cur, "eval", should, err)) ELSE trace
    /\ LET a == AfterEval(should, err)
       IN IF a.execute
          THEN Resume([stack |-> Goto("preExecute"), returned |-> FALSE, err |-> NoErr])
          ELSE Resume(FireReturn(stack, a.continueLoop, a.err))
    /\ UNCHANGED <<ruleType, children, context, goContext, lastCall, runArgs, canceled>>

\* r.eval() (rule.go:168-173, 308, 327): the hook returns any result.
Eval ==
    /\ At("eval")
    /\ IF "eval" \in hooked[Cur]
       THEN /\ HookWrites(Cur)
            /\ \E should \in BOOLEAN, err \in {NoErr} \cup UserErrs :
                  EvalReturns(TRUE, should, err)
       ELSE /\ UNCHANGED <<store, other>>
            /\ EvalReturns(FALSE, DefaultResult("eval").should, DefaultResult("eval").err)
    /\ UNCHANGED ctxVars

\* fire invoking a hook again when it returned an error
AfterHook_RetryOnError(hook, err) ==
    IF err # NoErr THEN hook
    ELSE IF hook = "preExecute" THEN "execute"
    ELSE IF hook = "execute" THEN "postExecute"
    ELSE "runChildren"

\* fire giving up between two hooks once the token is cancelled
AfterHook_Preempted(hook, err) ==
    IF err # NoErr \/ canceled THEN ""
    ELSE IF hook = "preExecute" THEN "execute"
    ELSE IF hook = "execute" THEN "postExecute"
    ELSE "runChildren"

\* fire running postExecute before execute
AfterHook_PostFirst(hook, err) ==
    IF err # NoErr THEN ""
    ELSE IF hook = "preExecute" THEN "postExecute"
    ELSE IF hook = "postExecute" THEN "execute"
    ELSE "runChildren"

\* fire dropping the result of postExecute
AfterHook_PostErrDropped(hook, err) ==
    IF hook = "postExecute" THEN "runChildren"
    ELSE IF err # NoErr THEN ""
    ELSE IF hook = "preExecute" THEN "execute"
    ELSE "postExecute"

\* What fire does after one of preExecute/execute/postExecute returned err
\* (rule.go:313-321, 332-340): "" when fire returns (false, err), otherwise
\* the next step.
AfterHook(hook, err) ==
    IF err # NoErr THEN ""
    ELSE IF hook = "preExecute" THEN "execute"
    ELSE IF hook = "execute" THEN "postExecute"
    ELSE "runChildren"

\* preExecute/execute/postExecute returned err to fire (rule.go:313-321,
\* 332-340).
HookReturns(hook, invoked, err) ==
    /\ trace' = IF invoked THEN Append(trace, Event(Cur, hook, TRUE, err)) ELSE trace
    /\ IF AfterHook(hook, err) = ""
       THEN Resume(FireReturn(stack, FALSE, err))
       ELSE Resume([stack |-> Goto(AfterHook(hook, err)), returned |-> FALSE, err |-> NoErr])
    /\ UNCHANGED <<ruleType, children, context, goContext, lastCall, runArgs, canceled>>

Hook(hook) ==
    /\ At(hook)
    /\ IF hook \in hooked[Cur]
       THEN /\ HookWrites(Cur)
            /\ \E err \in {NoErr} \cup UserErrs : HookReturns(hook, TRUE, err)
       ELSE /\ UNCHANGED <<store, other>>
            /\ HookReturns(hook, FALSE, DefaultResult(hook).err)
    /\ UNCHANGED ctxVars

\* r.preExecute() (rule.go:189-194, 313, 332)
PreExecute == Hook("preExecute")
\* r.execute() (rule.go:211-216, 316, 335)
Execute == Hook("execute")
\* r.postExecute() (rule.go:233-238, 319, 338)
PostExecute == Hook("postExecute")

\* a hook field holds a function or nil (rule.go:142-145)
NilFunc == "nil"
Funcs == {"func", NilFunc}

\* The assignment to the hook field of rule r that every setter and option
\* ends in (rule.go:177, 185, 198, 207, 220, 229, 242, 251, 411, 418): a
\* nil f leaves the rule without that hook.
SetHook(r, hook, f) ==
    /\ hooked' = [hooked EXCEPT ![r] = IF f = NilFunc THEN @ \ {hook}
                                       ELSE @ \cup {hook}]
    /\ UNCHANGED <<ruleType, children, context, goContext, lastCall, runState,
                   runArgs, stack, trace, result, canceled, store, other,
                   lastWrite, out, threads, mu, first>>

\* r.OnEval(f), WithEvaluation(f) (rule.go:176-181, 416-423): the field
\* gets a closure around f, which is never nil
OnEval(r) == SetHook(r, "eval", "func")
\* r.OnEvalWithError(f), WithEvaluationWithError(f) (rule.go:184-187,
\* 409-414): the field gets f itself
OnEvalWithError(r, f) == SetHook(r, "eval", f)
\* r.OnPreExecute(f), WithPreExecution(f) (rule.go:197-203, 449-456)
OnPreExecute(r) == SetHook(r, "preExecute", "func")
\* r.OnPreExecuteWithError(f), WithPreExecutionWithError(f) (rule.go:206-209,
\* 442-446)
OnPreExecuteWithError(r, f) == SetHook(r, "preExecute", f)
\* r.OnExecute(f), WithExecution(f) (rule.go:219-225, 432-439)
OnExecute(r) == SetHook(r, "execute", "func")
\* r.OnExecuteWithError(f), WithExecutionWithError(f) (rule.go:228-231,
\* 425-429)
OnExecuteWithError(r, f) == SetHook(r, "execute", f)
\* r.OnPostExecute(f), WithPostExecution(f) (rule.go:241-247, 466-473)
OnPostExecute(r) == SetHook(r, "postExecute", "func")
\* r.OnPostExecuteWithError(f), WithPostExecutionWithError(f)
\* (rule.go:250-253, 459-463)
OnPostExecuteWithError(r, f) == SetHook(r, "postExecute", f)

\* one call of a setter on rule r with f
SetAny(r, f) ==
    \/ f # NilFunc /\ (OnEval(r) \/ OnPreExecute(r) \/ OnExecute(r) \/ OnPostExecute(r))
    \/ OnEvalWithError(r, f)
    \/ OnPreExecuteWithError(r, f)
    \/ OnExecuteWithError(r, f)
    \/ OnPostExecuteWithError(r, f)

\* the program attaches a hook to a rule
AttachHook == \E r \in Nodes, f \in Funcs \ {NilFunc} : SetAny(r, f)

\* Hook fields of rules under construction: every rule has its four hooks,
\* or one rule is still waiting for one of them (main.go:28-42 attaches
\* them one call at a time).
OneShort ==
    {[n \in Nodes |-> HookNames]}
    \cup {[n \in Nodes |-> IF n = r THEN HookNames \ {h} ELSE HookNames] :
              r \in Nodes, h \in HookNames}

\* runChildren handing the children the rule's own first store
ChildFrame_OwnStore(r) ==
    Frame(ruleType[r], goContext[r], OwnContext(r), children[r])

\* runChildren handing the children a background context
ChildFrame_Background(r) ==
    Frame(ruleType[r], Background, context[r], children[r])

\* runChildren running the children on another store
ChildFrame_FreshStore(r) ==
    Frame(ruleType[r], goContext[r], OtherContext, children[r])

\* runChildren running the rule itself again instead of its children
ChildFrame_Self(r) ==
    Frame(ruleType[r], goContext[r], context[r], <<r>>)

\* The arguments runChildren passes to RuleRunner (rule.go:353): the rule's
\* tag, its bound context and store, its children.
ChildFrame(r) ==
    Frame(ruleType[r], goContext[r], context[r], children[r])

\* r.runChildren() (rule.go:352-354): RuleRunner on the rule's children with
\* the rule's own tag, context and store.
RunChildren ==
    /\ At("runChildren")
    /\ LET r == Cur
           e == RunnerEntry(ruleType[r], context[r], children[r])
       IN IF e.returns
          THEN Resume(RunnerReturn(stack, e.err))
          ELSE Resume([stack |-> Append(stack, ChildFrame(r)),
                       returned |-> FALSE, err |-> NoErr])
    /\ UNCHANGED <<ruleType, children, context, goContext, lastCall, runArgs, trace, canceled, storeVars>>

\* The issuer of tok cancels it (context.WithCancel's cancel func); there is
\* no way to undo it.
Cancel ==
    /\ ~canceled
    /\ runState # "returned"
    /\ canceled' = TRUE
    /\ UNCHANGED <<ruleType, children, context, goContext, lastCall, runState,
                   runArgs, stack, trace, result, storeVars>>

Strategies == {ChainRuleType, BestFirstRuleType, OtherRuleType}

Init ==
    /\ \E types \in [Nodes -> {ChainRuleType, BestFirstRuleType}] :
         /\ NewBaseRule(types)
         /\ children \in BuiltForests(types)
    /\ InitCommon
    /\ hooked = [n \in Nodes |-> HookNames]

Next ==
    \/ /\ runState = "idle"
       /\ \E strategy \in Strategies, goCtx \in {NilCtx, Tok},
             rc \in {Nil, CallerContext}, rules \in RootLists :
             RuleRunner(strategy, goCtx, rc, rules)
    \/ Fire
    \/ Eval
    \/ PreExecute
    \/ Execute
    \/ PostExecute
    \/ RunChildren
    \/ Cancel

Spec == Init /\ [][Next]_vars

\* The same, on rules that do not all have their four hooks yet: the
\* program goes on attaching hooks until it calls RuleRunner.
InitShort ==
    /\ \E types \in [Nodes -> {ChainRuleType, BestFirstRuleType}] :
         /\ NewBaseRule(types)
         /\ children \in BuiltForests(types)
    /\ InitCommon
    /\ hooked \in OneShort

NextShort ==
    \/ Next
    \/ /\ runState = "idle"
       /\ AttachHook

\* for the claims about the order in which a Run visits the rules and their
\* hooks
SpecOrder == InitShort /\ [][NextShort]_vars

\* for the claims about what a Run does with a single rule: which of its
\* hooks it invokes and how often
SpecFire == InitShort /\ [][NextShort]_vars

\* ------------------------------------------------- store, one goroutine
\* Each method takes the lock, touches the map and releases the lock on
\* return (defer); with one goroutine that is one step, which needs the
\* lock free and leaves it free.
Returns(o) ==
    /\ mu = Unlocked
    /\ out' = o
    /\ UNCHANGED <<ruleType, children, context, goContext, lastCall, runState,
                   runArgs, stack, trace, result, canceled, threads, mu,
                   other, first, hooked>>

\* the write recorded for the key it was applied to
Wrote(key, op, value) ==
    lastWrite' = [lastWrite EXCEPT ![key] = [op |-> op, value |-> value]]

\* rc.Get(key) (rule.go:61-66)
Get(key) ==
    /\ Returns([NoOut EXCEPT !.op = "Get", !.key = key,
                              !.value = GetResult(store, key).value,
                              !.ok = GetResult(store, key).ok])
    /\ UNCHANGED <<store, lastWrite>>

\* rc.MustGet(key) (rule.go:70-76): Get, then panic if the key was not found
MustGet(key) ==
    /\ Returns([NoOut EXCEPT !.op = "MustGet", !.key = key,
                              !.value = GetResult(store, key).value,
                              !.ok = GetResult(store, key).ok,
                              !.panicked = ~GetResult(store, key).ok])
    /\ UNCHANGED <<store, lastWrite>>

\* rc.Set(key, value) (rule.go:79-83)
Set(key, value) ==
    /\ Returns([NoOut EXCEPT !.op = "Set", !.key = key, !.value = value])
    /\ store' = SetMap(store, key, value)
    /\ Wrote(key, "Set", value)

\* rc.Delete(key) (rule.go:86-90)
Delete(key) ==
    /\ Returns([NoOut EXCEPT !.op = "Delete", !.key = key])
    /\ store' = DeleteMap(store, key)
    /\ Wrote(key, "Delete", Zero)

\* rc.Exists(key) (rule.go:93-98)
Exists(key) ==
    /\ Returns([NoOut EXCEPT !.op = "Exists", !.key = key,
                              !.ok = ExistsResult(store, key)])
    /\ UNCHANGED <<store, lastWrite>>

\* rc.Keys() (rule.go:101-109)
Keys ==
    /\ \E ks \in KeysResults(store) : Returns([NoOut EXCEPT !.op = "Keys", !.keys = ks])
    /\ UNCHANGED <<store, lastWrite>>

\* rc.Size() (rule.go:112-116)
Size ==
    /\ Returns([NoOut EXCEPT !.op = "Size", !.size = SizeResult(store)])
    /\ UNCHANGED <<store, lastWrite>>

\* One goroutine holds a store made by NewRuleContext; the rules play no
\* part.
InitStore ==
    /\ NewBaseRule([n \in Nodes |-> ChainRuleType])
    /\ children = [n \in Nodes |-> <<>>]
    /\ InitCommon
    /\ hooked = [n \in Nodes |-> HookNames]

NextStore ==
    \/ \E key \in KeyNames : Get(key)
    \/ \E key \in KeyNames : MustGet(key)
    \/ \E key \in KeyNames, value \in Vals : Set(key, value)
    \/ \E key \in KeyNames : Delete(key)
    \/ \E key \in KeyNames : Exists(key)
    \/ Keys
    \/ Size

SpecStore == InitStore /\ [][NextStore]_vars

\* ---------------------------------------------- store, several goroutines
\* A call goes through: called (pc "waiting"), lock acquired (pc "holding"),
\* then map access, deferred unlock and return in one step (pc "done", or
\* "panicked" for a MustGet that did not find its key).  Goroutine t works
\* on its own key with Set, Get, Delete (part_000:41-53) and on the shared
\* key with Set, Delete, MustGet; the value it sets is t.
ThreadCalls(t) ==
    {[op |-> o, key |-> PrivateKey(t)] : o \in {"Set", "Get", "Delete"}}
    \cup {[op |-> o, key |-> SharedKey] : o \in {"Set", "Delete", "MustGet"}}

\* every method taking the read lock
LockKind_AlwaysRLock(op) == "RLock"

\* Set and Delete take the write lock (rule.go:80, 87); Get, and MustGet
\* through Get, take the read lock (rule.go:62, 71).
LockKind(op) == IF op \in {"Set", "Delete"} THEN "Lock" ELSE "RLock"

\* sync.RWMutex: Lock waits until there is no reader and no writer
CanLock(m) == m.readers = {} /\ m.writer = 0
\* sync.RWMutex: RLock waits while a writer holds the lock
CanRLock(m) == m.writer = 0

\* MustGet panicking before the read lock is given back
HeldAfter_PanicInside(op, ok) == op = "MustGet" /\ ~ok

\* Set returning without giving the write lock back
HeldAfter_SetKeeps(op, ok) == op = "Set"

\* Whether a call still holds the lock once it has returned or panicked:
\* never, every method unlocks by defer (rule.go:63, 81, 88) and MustGet
\* panics after Get has returned (rule.go:71-74).
HeldAfter(op, ok) == FALSE

\* the write lock or this goroutine's read lock given back
Unlock(m, t) == [readers |-> m.readers \ {t},
                 writer |-> IF m.writer = t THEN 0 ELSE m.writer]

ConcFrame ==
    UNCHANGED <<ruleType, children, context, goContext, lastCall, runState,
                runArgs, stack, trace, result, canceled, out, other, first, hooked>>

\* goroutine t calls a store method
Call(t, c) ==
    /\ threads[t].pc \in {"idle", "done", "hook"}
    /\ threads' = [threads EXCEPT ![t] =
                      [IdleThread EXCEPT !.pc = "waiting", !.op = c.op, !.key = c.key,
                                         !.value = IF c.op = "Set" THEN t ELSE Zero]]
    /\ UNCHANGED <<store, lastWrite, mu>>
    /\ ConcFrame

\* rc.mu.Lock() returns in goroutine t (rule.go:80, 87); the order of these
\* steps is the order of the writes
Lock(t) ==
    /\ threads[t].pc = "waiting"
    /\ LockKind(threads[t].op) = "Lock"
    /\ CanLock(mu)
    /\ mu' = [mu EXCEPT !.writer = t]
    /\ threads' = [threads EXCEPT ![t].pc = "holding"]
    /\ Wrote(threads[t].key, threads[t].op, threads[t].value)
    /\ UNCHANGED store
    /\ ConcFrame

\* rc.mu.RLock() returns in goroutine t (rule.go:62)
RLock(t) ==
    /\ threads[t].pc = "waiting"
    /\ LockKind(threads[t].op) = "RLock"
    /\ CanRLock(mu)
    /\ mu' = [mu EXCEPT !.readers = @ \cup {t}]
    /\ threads' = [threads EXCEPT ![t].pc = "holding"]
    /\ UNCHANGED <<store, lastWrite>>
    /\ ConcFrame

\* goroutine t, holding the lock, touches the map and returns
\* (rule.go:64-65, 82, 89), or panics out of MustGet (rule.go:72-74)
Access(t) ==
    /\ threads[t].pc = "holding"
    /\ LET c == threads[t]
           g == GetResult(store, c.key)
           found == IF c.op \in {"Get", "MustGet"} THEN g.ok ELSE TRUE
       IN /\ store' = IF c.op = "Set" THEN SetMap(store, c.key, c.value)
                      ELSE IF c.op = "Delete" THEN DeleteMap(store, c.key)
                      ELSE store
          /\ threads' = [threads EXCEPT ![t] =
                [c EXCEPT !.pc = IF c.op = "MustGet" /\ ~g.ok THEN "panicked" ELSE "done",
                          !.value = IF c.op \in {"Get", "MustGet"} THEN g.value ELSE c.value,
                          !.ok = found]]
          /\ mu' = IF HeldAfter(c.op, found) THEN mu ELSE Unlock(mu, t)
    /\ UNCHANGED lastWrite
    /\ ConcFrame

\* the caller of MustGet recovers from the panic (part_000:110-112) and
\* goes on
Recover(t) ==
    /\ threads[t].pc = "panicked"
    /\ threads' = [threads EXCEPT ![t] = IdleThread]
    /\ UNCHANGED <<store, lastWrite, mu>>
    /\ ConcFrame

NextConc ==
    \E t \in Threads :
        \/ \E c \in ThreadCalls(t) : Call(t, c)
        \/ Lock(t)
        \/ RLock(t)
        \/ Access(t)
        \/ Recover(t)

SpecConc == InitStore /\ [][NextConc]_vars

\* ------------------------------------------------------- reading the trace
Idx == 1..Len(trace)
\* hook h of rule r was invoked
Invoked(r, h) == \E i \in Idx : trace[i].rule = r /\ trace[i].hook = h
\* some hook of rule r was invoked
AnyHookOf(r) == \E h \in HookNames : Invoked(r, h)
Fired(r) == Invoked(r, "fire")
\* rule r has hook h attached
Has(r, h) == h \in hooked[r]
\* rule r ran its pre-execute/execute/post-execute sequence, as far as it
\* has these hooks
Executes(r) == \E h \in {"preExecute", "execute", "postExecute"} : Invoked(r, h)
\* the eval hook of rule r returned (should, NoErr)
EvalReturned(r, should) ==
    \E i \in Idx : trace[i] = Event(r, "eval", should, NoErr)
\* eval of rule r returned (true, NoErr): its hook did, or the rule was
\* fired with no eval hook (rule.go:169-171)
EvalSaidYes(r) == EvalReturned(r, TRUE) \/ (~Has(r, "eval") /\ Fired(r))
NoHookInvoked == \A i \in Idx : trace[i].hook \notin HookNames
\* no rule was bound or fired
Untouched ==
    /\ trace = <<>>
    /\ context = [n \in Nodes |-> OwnContext(n)]
    /\ goContext = [n \in Nodes |-> Background]

Called == runState # "idle"
Returned == runState = "returned"
AllNonNil(rules) == \A i \in 1..Len(rules) : rules[i] # Nil

RECURSIVE Descendants(_)
Descendants(r) ==
    UNION {{children[r][i]} \cup Descendants(children[r][i]) : i \in 1..Len(children[r])}

\* the path from r through first children
RECURSIVE Path(_)
Path(r) == IF children[r] = <<>> THEN <<r>> ELSE <<r>> \o Path(children[r][1])

\* Sibling lists run as one batch under BestFirst: the top-level list of a
\* BestFirst call, and the children of every BestFirst-tagged rule.
BestFirstBatches ==
    (IF /\ Called /\ runArgs.strategy = BestFirstRuleType
        /\ runArgs.ruleContext # Nil /\ AllNonNil(runArgs.rules)
     THEN {runArgs.rules} ELSE {})
    \cup {children[p] : p \in {q \in Nodes : ruleType[q] = BestFirstRuleType}}

\* In batch rs at most one sibling executes, it is the first whose eval
\* returned true (every earlier one returned false), and nothing of a later
\* sibling is invoked.
FirstMatchOnly(rs) ==
    \A i \in 1..Len(rs) :
        Executes(rs[i]) =>
            /\ EvalSaidYes(rs[i])
            /\ \A j \in 1..Len(rs) : j < i => EvalReturned(rs[j], FALSE) /\ ~Executes(rs[j])
            /\ \A j \in 1..Len(rs) : j > i => ~Fired(rs[j]) /\ ~AnyHookOf(rs[j])

\* ------------------------------------------------------------------ claims

\* C1 as stated: in every Run under the BestFirst strategy, over any
\* sequence of sibling rules, at most one sibling executes, it is the first
\* whose eval returns true, and no hook of a later sibling is invoked.
C1_AnySiblings == \A rs \in BestFirstBatches : FirstMatchOnly(rs)

\* C1 amended: the same, for sequences of BestFirst-tagged siblings.
C1_BestFirstSiblings ==
    \A rs \in BestFirstBatches :
        (\A i \in 1..Len(rs) : ruleType[rs[i]] = BestFirstRuleType) => FirstMatchOnly(rs)

\* three BestFirst siblings with eval results false, true: the second
\* executed to the end and the third was never fired
C1_Witness ==
    /\ Returned
    /\ runArgs.strategy = BestFirstRuleType
    /\ runArgs.rules = <<1, 2, 3>>
    /\ \A n \in Nodes : ruleType[n] = BestFirstRuleType
    /\ EvalReturned(1, FALSE)
    /\ Invoked(2, "postExecute")
    /\ ~Fired(3)
    /\ result = NoErr

\* the top-level call was a Chain call that passed validation
ChainRun ==
    /\ Called
    /\ runArgs.strategy = ChainRuleType
    /\ runArgs.ruleContext # Nil
    /\ Len(runArgs.rules) = 1
    /\ runArgs.rules[1] # Nil

\* executed rules are a prefix of the path below the root; a rule whose eval
\* returned false did not execute, nothing below it was invoked, and a Run
\* that has returned returned no error
ChainPrefix ==
    LET p == Path(runArgs.rules[1])
    IN /\ \A n \in Nodes : Executes(n) => \E k \in 1..Len(p) : p[k] = n
       /\ \A k \in 1..Len(p) : Executes(p[k]) => \A j \in 1..(k - 1) : Executes(p[j])
       /\ \A n \in Nodes :
            EvalReturned(n, FALSE) =>
                /\ ~Invoked(n, "preExecute") /\ ~Invoked(n, "execute")
                /\ ~Invoked(n, "postExecute")
                /\ \A d \in Descendants(n) : ~Fired(d) /\ ~AnyHookOf(d)
                /\ Returned => result = NoErr

\* C2 as stated: for every tree run under the Chain strategy the executed
\* rules form a prefix of the single root-to-leaf path, and a rule whose eval
\* returns false neither executes nor lets a descendant run, and Run returns
\* no error.
C2_AnyTree == ChainRun => ChainPrefix

\* C2 amended: the same, for trees in which no rule has more than one child.
C2_SinglePath ==
    (ChainRun /\ \A n \in Nodes : Len(children[n]) <= 1) => ChainPrefix

\* a chain of three: the root executed, its child declined, the grandchild
\* was never fired, and Run returned no error
C2_Witness ==
    /\ ChainRun /\ Returned
    /\ children[1] = <<2>> /\ children[2] = <<3>>
    /\ Invoked(1, "postExecute")
    /\ EvalReturned(2, FALSE)
    /\ ~Fired(3)
    /\ result = NoErr

\* the order in which fire calls the hooks (rule.go:308-321, 327-340)
HookOrder == <<"eval", "preExecute", "execute", "postExecute">>
Pos(h) == CHOOSE k \in 1..4 : HookOrder[k] = h
\* the first hook after h that rule r has, "runChildren" if it has none
Following(r, h) ==
    LET later == {k \in (Pos(h) + 1)..4 : Has(r, HookOrder[k])}
    IN IF later = {} THEN "runChildren"
       ELSE HookOrder[CHOOSE k \in later : \A m \in later : k <= m]
\* the last hook before h that rule r has, "fire" if it has none
Preceding(r, h) ==
    LET earlier == {k \in 1..(Pos(h) - 1) : Has(r, HookOrder[k])}
    IN IF earlier = {} THEN "fire"
       ELSE HookOrder[CHOOSE k \in earlier : \A m \in earlier : k >= m]
\* the last hook that rule r has, "fire" if it has none
LastHook(r) ==
    IF Has(r, "postExecute") THEN "postExecute" ELSE Preceding(r, "postExecute")
\* what the trace shows when step h of rule r let the fire go on: the fire
\* entry, or the hook returning without error (eval with true)
WentOn(r, h) == Event(r, h, h # "fire", NoErr)

\* the event after position i is hook h of rule r; if nothing followed yet,
\* the fire of r is on its way to it, past hooks that r does not have
NextIs(i, r, h) ==
    IF i < Len(trace)
    THEN trace[i + 1].rule = r /\ trace[i + 1].hook = h
    ELSE /\ Cur = r
         /\ Top.pc \in HookNames
         /\ Pos(Top.pc) <= Pos(h)

\* C3: after an eval that returns (true, no error) the rule's hooks run in
\* the order eval, pre-execute, execute, post-execute, each right after the
\* previous one returned without error, and no hook of a child runs before
\* the parent's post-execute has returned, whatever the tags. A hook that
\* the rule does not have is passed over: the hooks it has keep this order,
\* and a child waits for the last of them.
C3_HookOrder ==
    \A i \in Idx :
        LET e == trace[i]
        IN /\ (e.hook \in HookNames /\ e = WentOn(e.rule, e.hook)
               /\ Following(e.rule, e.hook) # "runChildren")
              => NextIs(i, e.rule, Following(e.rule, e.hook))
           /\ e.hook \in {"preExecute", "execute", "postExecute"}
              => trace[i - 1] = WentOn(e.rule, Preceding(e.rule, e.hook))
           /\ e.hook \in HookNames =>
                \A p \in Nodes :
                    (\E k \in 1..Len(children[p]) : children[p][k] = e.rule) =>
                        \E j \in 1..(i - 1) : trace[j] = WentOn(p, LastHook(p))

\* a Chain parent and a BestFirst parent each ran all four hooks and then
\* the eval of a child
C3_Witness ==
    \E p, q \in Nodes :
        /\ ruleType[p] = ChainRuleType /\ ruleType[q] = BestFirstRuleType
        /\ Invoked(p, "postExecute") /\ Invoked(q, "postExecute")
        /\ children[p] # <<>> /\ Invoked(children[p][1], "eval")
        /\ children[q] # <<>> /\ Invoked(children[q][1], "eval")

\* Run was called with tok already cancelled, a store, and a non-empty list
\* of non-nil rules, under Chain or BestFirst
CanceledBeforeRun ==
    /\ Called
    /\ runArgs.goCtx = Tok /\ runArgs.canceled
    /\ runArgs.ruleContext # Nil
    /\ Len(runArgs.rules) >= 1 /\ AllNonNil(runArgs.rules)
    /\ runArgs.strategy \in {ChainRuleType, BestFirstRuleType}

\* C4 as stated: with the token signaled before Run, a non-nil store and at
\* least one non-nil rule, Run returns the cancellation error and no hook of
\* any rule is invoked, under either strategy.
C4_AnyRuleList ==
    CanceledBeforeRun => NoHookInvoked /\ (Returned => result = Canceled)

\* C4 amended: the same, when under Chain exactly one rule is supplied.
C4_CanceledBeforeRun ==
    (CanceledBeforeRun /\ (runArgs.strategy = ChainRuleType => Len(runArgs.rules) = 1))
        => NoHookInvoked /\ (Returned => result = Canceled)

\* a BestFirst call on rules with children, token cancelled beforehand, has
\* returned the cancellation error after firing the first rule
C4_Witness ==
    /\ CanceledBeforeRun /\ Returned
    /\ runArgs.strategy = BestFirstRuleType
    /\ Len(runArgs.rules) >= 2
    /\ children[1] # <<>>
    /\ Fired(1)
    /\ result = Canceled

\* C5: when eval of a rule returns an error, with either value of the
\* proceed flag, none of pre-execute/execute/post-execute of that rule is
\* invoked, no child of it is fired, nothing at all is invoked afterwards,
\* and Run returns exactly that error.
C5_EvalError ==
    \A i \in Idx :
        (trace[i].hook = "eval" /\ trace[i].err # NoErr) =>
            LET r == trace[i].rule
            IN /\ ~Invoked(r, "preExecute") /\ ~Invoked(r, "execute")
               /\ ~Invoked(r, "postExecute")
               /\ \A k \in 1..Len(children[r]) : ~Fired(children[r][k])
               /\ i = Len(trace)
               /\ Returned /\ result = trace[i].err

\* a nested rule with a child of its own returned (true, error) from eval
C5_Witness ==
    \E i \in Idx :
        /\ trace[i].hook = "eval" /\ trace[i].should /\ trace[i].err \in UserErrs
        /\ children[trace[i].rule] # <<>>
        /\ IsChild(children, trace[i].rule)

\* C6: when pre-execute, execute or post-execute of a rule returns an error,
\* no later hook of that rule and no child of it is invoked, nothing at all
\* is invoked afterwards, and Run returns exactly that error.
C6_ExecError ==
    \A i \in Idx :
        (trace[i].hook \in {"preExecute", "execute", "postExecute"} /\ trace[i].err # NoErr) =>
            LET r == trace[i].rule
            IN /\ trace[i].hook = "preExecute" => ~Invoked(r, "execute")
               /\ trace[i].hook \in {"preExecute", "execute"} => ~Invoked(r, "postExecute")
               /\ \A k \in 1..Len(children[r]) :
                    ~Fired(children[r][k]) /\ ~AnyHookOf(children[r][k])
               /\ i = Len(trace)
               /\ Returned /\ result = trace[i].err

\* post-execute of a nested rule with a child of its own returned an error
C6_Witness ==
    \E i \in Idx :
        /\ trace[i].hook = "postExecute" /\ trace[i].err \in UserErrs
        /\ children[trace[i].rule] # <<>>
        /\ IsChild(children, trace[i].rule)

\* C7: after any sequence of AddChildren, MustAddChildren and WithChildren
\* calls, failed ones included, a Chain rule has at most one child.
C7_ChainSingleChild ==
    \A n \in Nodes : ruleType[n] = ChainRuleType => Len(children[n]) <= 1

\* a second child was just refused on a Chain rule that has one
C7_Witness ==
    /\ lastCall.err = ErrChainRuleMultipleChildren
    /\ \E n \in Nodes : ruleType[n] = ChainRuleType /\ Len(children[n]) = 1

\* C8: a call of AddChildren that returns an error leaves every child list
\* as it was; no non-nil rule that precedes a nil one is appended.
C8_FailedAddUnchanged ==
    [][lastCall'.err # NoErr => children' = children]_vars

\* a list whose second entry is nil was just refused with ErrNilRule
C8_Witness ==
    /\ lastCall.op = "AddChildren"
    /\ lastCall.err = ErrNilRule
    /\ lastCall.firstNil = 1

\* C9: a Chain Run with a store and two or more rules, all non-nil, returns
\* ErrChainRuleMultipleRules, and no rule is bound or fired.
C9_ChainMultipleRules ==
    (/\ Called
     /\ runArgs.strategy = ChainRuleType
     /\ runArgs.ruleContext # Nil
     /\ Len(runArgs.rules) >= 2
     /\ AllNonNil(runArgs.rules))
        => Returned /\ result = ErrChainRuleMultipleRules /\ Untouched

\* a Chain Run on two rules has returned
C9_Witness ==
    /\ Returned
    /\ runArgs.strategy = ChainRuleType
    /\ runArgs.ruleContext # Nil
    /\ runArgs.rules = <<1, 2>>

\* C10: Run with a nil store returns ErrNilRuleContext under either
\* strategy, and no rule is bound or fired.
C10_NilStore ==
    (Called /\ runArgs.ruleContext = Nil)
        => Returned /\ result = ErrNilRuleContext /\ Untouched

\* a BestFirst Run on two rules with a nil store has returned
C10_Witness ==
    /\ Returned
    /\ runArgs.ruleContext = Nil
    /\ runArgs.strategy = BestFirstRuleType
    /\ runArgs.rules = <<1, 2>>

\* C11: a Run with a store and a rule list that has a nil entry returns an
\* error that wraps ErrNilRule and names the zero-based index of the first
\* nil entry, under any strategy, and no rule is bound or fired, the
\* non-nil rules ahead of the nil entry included.
C11_NilRule ==
    (/\ Called
     /\ runArgs.ruleContext # Nil
     /\ ~AllNonNil(runArgs.rules))
        => /\ Returned
           /\ result.base = ErrNilRule.base
           /\ result.index \in 0..(Len(runArgs.rules) - 1)
           /\ runArgs.rules[result.index + 1] = Nil
           /\ \A j \in 1..result.index : runArgs.rules[j] # Nil
           /\ Untouched

\* a BestFirst Run on two rules followed by a nil entry has returned
C11_Witness ==
    /\ Returned
    /\ runArgs.strategy = BestFirstRuleType
    /\ runArgs.ruleContext # Nil
    /\ runArgs.rules = <<1, 2, Nil>>
    /\ result = ErrNilRuleAt(2)

\* C12: a Run with a store and an empty rule list returns no error under
\* the Chain and under the BestFirst strategy, invokes no hook, binds no
\* rule, and leaves the store with the contents it had at the call.
C12_EmptyList ==
    (/\ Called
     /\ runArgs.strategy \in {ChainRuleType, BestFirstRuleType}
     /\ runArgs.ruleContext # Nil
     /\ runArgs.rules = <<>>)
        => /\ Returned
           /\ result = NoErr
           /\ Untouched
           /\ store = runArgs.store

\* a Chain Run on the empty list has returned
C12_Witness ==
    /\ Returned
    /\ runArgs.strategy = ChainRuleType
    /\ runArgs.ruleContext # Nil
    /\ runArgs.rules = <<>>

\* BestFirst-tagged rules all of whose children are Chain-tagged
ChainChildrenOwners ==
    {p \in Nodes :
        /\ ruleType[p] = BestFirstRuleType
        /\ children[p] # <<>>
        /\ \A i \in 1..Len(children[p]) : ruleType[children[p][i]] = ChainRuleType}

\* C13 as stated: when a BestFirst-tagged rule owns Chain-tagged children,
\* the iteration over them stops after the first child that executes, so at
\* most one child executes and no later child is fired.
C13_FirstChildWins ==
    \A p \in ChainChildrenOwners :
        \A i, j \in 1..Len(children[p]) :
            (i < j /\ Executes(children[p][i])) => ~Fired(children[p][j])

\* C13 amended: when a BestFirst-tagged rule owns Chain-tagged children,
\* the iteration over them does not stop at a child that executes: once the
\* Run has returned without error and the first child was fired, every
\* child was fired, and each executed exactly when its eval returned true.
C13_ChainChildrenAllRun ==
    \A p \in ChainChildrenOwners :
        (Returned /\ result = NoErr /\ Fired(children[p][1]))
            => \A i \in 1..Len(children[p]) :
                  /\ Fired(children[p][i])
                  /\ Executes(children[p][i]) <=> EvalSaidYes(children[p][i])

\* BestFirst-tagged rule 1 owns the Chain-tagged rules 2 and 3, and both
\* executed to the end
C13_Witness ==
    /\ Returned
    /\ result = NoErr
    /\ ruleType[1] = BestFirstRuleType
    /\ children[1] = <<2, 3>>
    /\ ruleType[2] = ChainRuleType
    /\ ruleType[3] = ChainRuleType
    /\ Invoked(2, "postExecute")
    /\ Invoked(3, "postExecute")

\* the rule whose child list holds r, Nil for a rule of the top-level list
ParentOf(r) ==
    IF IsChild(children, r)
    THEN CHOOSE p \in Nodes : \E i \in 1..Len(children[p]) : children[p][i] = r
    ELSE Nil
\* the sibling list r is run in
BatchOf(r) == IF ParentOf(r) = Nil THEN runArgs.rules ELSE children[ParentOf(r)]
\* the siblings that follow r in its list
LaterSiblings(r) ==
    {BatchOf(r)[j] : j \in {k \in 1..Len(BatchOf(r)) :
                                \E i \in 1..(k - 1) : BatchOf(r)[i] = r}}
RECURSIVE Enclosing(_)
\* r and the rules above it
Enclosing(r) == {r} \cup (IF ParentOf(r) = Nil THEN {} ELSE Enclosing(ParentOf(r)))

\* C14: once a hook has returned an error nothing more is invoked and the
\* top-level Run has returned exactly that error; and whenever a Run that
\* fired something has returned an error (a hook's, or the cancellation
\* error of a nested fire), the siblings that follow the failing rule, at
\* its own level and at every enclosing level, were never fired.
C14_ErrorAborts ==
    /\ \A i \in Idx :
          trace[i].err # NoErr =>
              i = Len(trace) /\ Returned /\ result = trace[i].err
    /\ (Returned /\ result # NoErr /\ trace # <<>>) =>
          \A a \in Enclosing(trace[Len(trace)].rule) :
              \A sib \in LaterSiblings(a) : ~Fired(sib) /\ ~AnyHookOf(sib)

\* execute of rule 3, the child of the Chain-tagged rule 1, returned an
\* error in a BestFirst Run on the rules 1 and 2: rule 2 was not tried
C14_Witness ==
    /\ Returned
    /\ runArgs.strategy = BestFirstRuleType
    /\ runArgs.rules = <<1, 2>>
    /\ ruleType[1] = ChainRuleType
    /\ children[1] = <<3>>
    /\ result \in UserErrs
    /\ trace # <<>>
    /\ trace[Len(trace)].rule = 3
    /\ trace[Len(trace)].hook = "execute"
    /\ ~Fired(2)

\* in a BestFirst call that passed validation, the eval of every supplied
\* rule has returned, and returned false without error
AllEvalFalse ==
    /\ Called
    /\ runArgs.strategy = BestFirstRuleType
    /\ runArgs.ruleContext # Nil
    /\ runArgs.rules # <<>>
    /\ AllNonNil(runArgs.rules)
    /\ \A k \in 1..Len(runArgs.rules) :
          /\ EvalReturned(runArgs.rules[k], FALSE)
          /\ \A i \in Idx :
                (trace[i].rule = runArgs.rules[k] /\ trace[i].hook = "eval")
                    => trace[i] = Event(runArgs.rules[k], "eval", FALSE, NoErr)

\* the Run returned no error, and what happened is exactly: each supplied
\* rule in order was fired and its eval invoked once
EvalOnlyInOrder ==
    /\ Returned
    /\ result = NoErr
    /\ Len(trace) = 2 * Len(runArgs.rules)
    /\ \A k \in 1..Len(runArgs.rules) :
          /\ trace[2 * k - 1] = Event(runArgs.rules[k], "fire", FALSE, NoErr)
          /\ trace[2 * k].rule = runArgs.rules[k]
          /\ trace[2 * k].hook = "eval"

\* C15: under BestFirst, when the eval of every supplied sibling returns
\* false without error, Run returns no error, the eval of each sibling is
\* invoked exactly once in supplied order, and no pre-execute, execute,
\* post-execute and no child of a sibling is invoked.
C15_AllSkipped == AllEvalFalse => EvalOnlyInOrder

\* two siblings, the first of them the parent of rule 3, were both skipped
C15_Witness ==
    /\ AllEvalFalse
    /\ runArgs.rules = <<1, 2>>
    /\ children[1] = <<3>>
    /\ Returned

\* ---------------------------------------------------------- store claims
\* the keys whose latest write is a Set
Present == {k \in KeyNames : lastWrite[k].op = "Set"}

\* C16: over any sequence of Set, Delete and Get (and the other methods),
\* Get(k) returns (v, true) exactly when the latest write to k was
\* Set(k, v), the zero value included, and (zero, false) when k was never
\* set or the latest write to k was Delete(k).
C16_ReferenceMap ==
    out.op = "Get" =>
        IF lastWrite[out.key].op = "Set"
        THEN out.ok /\ out.value = lastWrite[out.key].value
        ELSE ~out.ok /\ out.value = Zero

\* Get found a stored zero value, while another key was deleted after it
\* had been set
C16_Witness ==
    /\ out.op = "Get"
    /\ out.ok
    /\ out.value = Zero
    /\ \E k \in KeyNames : lastWrite[k].op = "Delete"

\* C17: Exists(k) equals the found flag of Get(k), Size() is the number of
\* keys present, Keys() lists every present key once and no absent key, and
\* none of the three changes the store.
C17_Introspection ==
    [][out'.op \in {"Exists", "Keys", "Size"} =>
        /\ store' = store
        /\ out'.op = "Exists" =>
              /\ out'.ok = GetResult(store', out'.key).ok
              /\ out'.ok = (out'.key \in Present')
        /\ out'.op = "Size" => out'.size = Cardinality(Present')
        /\ out'.op = "Keys" =>
              /\ Len(out'.keys) = Cardinality(Present')
              /\ Range(out'.keys) = Present']_vars

\* Keys returned two keys while a third key had been set and deleted
C17_Witness ==
    /\ out.op = "Keys"
    /\ Len(out.keys) = 2
    /\ \E k \in KeyNames : lastWrite[k].op = "Delete"

\* goroutine t is between lock acquisition and unlock
Inside(t) == threads[t].pc = "holding"
IsWriter(t) == threads[t].op \in {"Set", "Delete"}

\* C18: MustGet(k) returns the stored value when k is present and panics
\* when k is absent; either way the step leaves the store as it was and the
\* goroutine holds no lock afterwards.
C18_MustGet ==
    [][\A t \in Threads :
        (/\ Inside(t)
         /\ threads[t].op = "MustGet"
         /\ threads'[t].pc # "holding") =>
            /\ store' = store
            /\ IF lastWrite[threads[t].key].op = "Set"
               THEN /\ threads'[t].pc = "done"
                    /\ threads'[t].value = lastWrite[threads[t].key].value
               ELSE threads'[t].pc = "panicked"
            /\ t \notin mu'.readers
            /\ mu'.writer = 0]_vars

\* goroutine 1 has panicked in MustGet, and goroutine 2 has since acquired
\* the write lock
C18_Witness ==
    /\ threads[1].pc = "panicked"
    /\ threads[1].op = "MustGet"
    /\ Inside(2)
    /\ threads[2].op = "Set"
    /\ mu.writer = 2

\* C19: under every interleaving, while a Set or Delete is between lock and
\* unlock no other call is; and whenever no write is in progress, every key
\* holds what the write that acquired the lock last put there, so of
\* concurrent Sets on one key the one that locked last wins.
C19_WritersExclusive ==
    /\ \A t, u \in Threads :
          (t # u /\ Inside(t) /\ IsWriter(t)) => ~Inside(u)
    /\ (\A t \in Threads : ~(Inside(t) /\ IsWriter(t))) =>
          \A k \in KeyNames :
              IF lastWrite[k].op = "Set"
              THEN GetResult(store, k) = [value |-> lastWrite[k].value, ok |-> TRUE]
              ELSE ~GetResult(store, k).ok

\* goroutine 1 holds the write lock for a Set on the shared key while
\* goroutine 2 waits with a Set on the same key, after an earlier Set of
\* goroutine 2 on it
C19_Witness ==
    /\ Inside(1)
    /\ threads[1].op = "Set"
    /\ threads[1].key = SharedKey
    /\ threads[2].pc = "waiting"
    /\ threads[2].op = "Set"
    /\ threads[2].key = SharedKey
    /\ GetResult(store, SharedKey) = [value |-> 2, ok |-> TRUE]

\* C20: a Get by a goroutine on a key only it uses, after its own Set(k, v)
\* and before its own Delete(k), returns (v, true), whatever the other
\* goroutines do to other keys in between.
C20_OwnKey ==
    \A t \in Threads :
        (/\ threads[t].pc = "done"
         /\ threads[t].op = "Get"
         /\ threads[t].key = PrivateKey(t)
         /\ lastWrite[PrivateKey(t)].op = "Set")
            => /\ threads[t].ok
               /\ threads[t].value = lastWrite[PrivateKey(t)].value

\* goroutine 1 got its own key back after goroutine 2 had written and
\* deleted both the shared key and its own
C20_Witness ==
    /\ threads[1].pc = "done"
    /\ threads[1].op = "Get"
    /\ threads[1].ok
    /\ threads[1].value = 1
    /\ lastWrite[SharedKey] = [op |-> "Delete", value |-> Zero]
    /\ lastWrite[PrivateKey(2)].op = "Delete"

\* ------------------------------------------------------ claims C21 to C30

\* C22: in a Run, every rule fired at any depth is bound to the store and
\* the context passed to the top-level call, from its fire on (so before
\* its first hook, which never precedes its fire) and still after the Run
\* has returned.
C22_BoundToRunArgs ==
    /\ \A r \in Nodes :
          Fired(r) => /\ context[r] = runArgs.ruleContext
                      /\ goContext[r] = runArgs.goCtx
    /\ \A i \in Idx :
          trace[i].hook \in HookNames =>
              \E j \in 1..(i - 1) : trace[j] = Event(trace[i].rule, "fire", FALSE, NoErr)

\* a Run with a token went three levels deep and returned
C22_Witness ==
    /\ Returned
    /\ runArgs.goCtx = Tok
    /\ children[1] = <<2>>
    /\ children[2] = <<3>>
    /\ Invoked(3, "execute")
    /\ context[3] = CallerContext
    /\ goContext[3] = Tok

\* C28: once the token of a Run is cancelled, the fire of every rule that
\* begins afterwards, sibling or child at any depth, invokes no hook and
\* fails with the cancellation error, which the top-level Run returns.
C28_CancelStopsPending ==
    [][(/\ canceled
        /\ runArgs.goCtx = Tok
        /\ Len(trace') = Len(trace) + 1
        /\ trace'[Len(trace')].hook = "fire")
           => /\ runState' = "returned"
              /\ result' = Canceled]_vars

\* the token was cancelled while rule 1 was executing, and the fire of its
\* child ended the Run
C28_Witness ==
    /\ Returned
    /\ result = Canceled
    /\ ~runArgs.canceled
    /\ children[1] = <<2>>
    /\ Invoked(1, "postExecute")
    /\ trace[Len(trace)] = Event(2, "fire", FALSE, NoErr)

\* C29: within one Run over a forest each rule is fired at most once and
\* each of its four hooks is invoked at most once, a failed hook included;
\* pre-execute, execute and post-execute of a rule are invoked only after
\* its eval returned true without error. The eval of a rule that has no
\* eval hook is the call r.eval() that fire makes, which returns true
\* (rule.go:169-171): the hooks of such a rule are invoked only after its
\* fire began.
C29_AtMostOnce ==
    /\ \A i, j \in Idx :
          (trace[i].rule = trace[j].rule /\ trace[i].hook = trace[j].hook) => i = j
    /\ \A i \in Idx :
          trace[i].hook \in {"preExecute", "execute", "postExecute"} =>
              \E j \in 1..(i - 1) :
                  trace[j] = WentOn(trace[i].rule,
                                    IF Has(trace[i].rule, "eval") THEN "eval" ELSE "fire")

\* every rule of a three-rule forest was fired and ran all its hooks
C29_Witness ==
    /\ Returned
    /\ result = NoErr
    /\ Len(trace) = 5 * MaxNodes

\* C30: what a fire that returns no error tells the sibling loop depends
\* only on the rule's tag and on whether it executed.  Seen in a Run that
\* returned no error, for a fired rule with a next sibling in a BestFirst
\* batch: the next sibling was fired exactly when the rule is Chain-tagged
\* (executed or skipped) or is BestFirst-tagged and was skipped.
C30_ContinuationSignal ==
    (Returned /\ result = NoErr) =>
        \A rs \in BestFirstBatches :
            \A i \in 1..(Len(rs) - 1) :
                Fired(rs[i]) =>
                    (Fired(rs[i + 1]) <=>
                        \/ ruleType[rs[i]] = ChainRuleType
                        \/ EvalReturned(rs[i], FALSE))

\* three siblings: a Chain-tagged one that executed, a BestFirst-tagged one
\* that was skipped, a BestFirst-tagged one that executed
C30_Witness ==
    /\ Returned
    /\ result = NoErr
    /\ runArgs.strategy = BestFirstRuleType
    /\ runArgs.rules = <<1, 2, 3>>
    /\ ruleType[1] = ChainRuleType
    /\ ruleType[2] = BestFirstRuleType
    /\ ruleType[3] = BestFirstRuleType
    /\ Invoked(1, "postExecute")
    /\ EvalReturned(2, FALSE)
    /\ Invoked(3, "postExecute")

\* C26: a MustAddChildren or WithChildren call panics exactly when its
\* AddChildren returned an error, so always when a Chain rule would get a
\* second child and never with a list that was appended; on the panic the
\* child lists are what they were, and a Chain rule never ends with two
\* children.
C26_PanicOnError ==
    [][lastCall'.op \in {"MustAddChildren", "WithChildren"} =>
        /\ lastCall'.panicked <=> lastCall'.err # NoErr
        /\ lastCall'.panicked => children' = children
        /\ children' # children => ~lastCall'.panicked
        /\ \A n \in Nodes :
              ruleType[n] = ChainRuleType => Len(children'[n]) <= 1]_vars

\* WithChildren panicked with the arity error on a Chain rule that already
\* has its child
C26_Witness ==
    /\ lastCall.op = "WithChildren"
    /\ lastCall.panicked
    /\ lastCall.err = ErrChainRuleMultipleChildren
    /\ \E n \in Nodes : ruleType[n] = ChainRuleType /\ Len(children[n]) = 1

RECURSIVE ReachableIn(_, _)
\* the rules reached from r by following child lists for up to k steps
ReachableIn(r, k) ==
    IF k = 0 THEN {}
    ELSE Range(children[r])
         \cup UNION {ReachableIn(children[r][i], k - 1) : i \in 1..Len(children[r])}

\* C27: after any sequence of construction calls the parent-child relation
\* is a forest: no rule is a child of two rules, no rule occurs twice in
\* one child list, and no rule is its own ancestor.
C27_Forest ==
    /\ \A p, q \in Nodes :
          p # q => Range(children[p]) \cap Range(children[q]) = {}
    /\ \A p \in Nodes :
          \A i, j \in 1..Len(children[p]) : children[p][i] = children[p][j] => i = j
    /\ \A r \in Nodes : r \notin ReachableIn(r, MaxNodes)

\* ------------------------------------------------- two Runs of the same rules
\* SpecRerun: the caller runs the rules against its store, and once that
\* Run has returned runs the same rules again, with the same strategy and
\* token, against a second store seeded like the first. The token is never cancelled. The hooks are functions of the
\* store: what a hook returns depends on its rule, on which hook it is and
\* on what it finds under the shared key, and every execute hook sets the
\* shared key to its rule (main.go:76-79, 84-87, 92-95).

\* contents of the store rule r is bound to
BoundStore(r) == IF context[r] = OtherContext THEN other ELSE store

\* what the shared key held when event i of trace tr was invoked, in a Run
\* that started on a store with contents seed
SeenIn(tr, i, seed) ==
    LET writes == {j \in 1..(i - 1) : tr[j].hook = "execute"}
    IN IF writes = {} THEN GetResult(seed, SharedKey)
       ELSE LET last == CHOOSE j \in writes : \A k \in writes : k <= j
            IN [value |-> tr[last].rule, ok |-> TRUE]

\* the hook of rule r returns (should, err) now: as it did in the first Run
\* if it was invoked there on the same contents
Replays(r, hook, should, err) ==
    first.ran =>
        \A i \in 1..Len(first.trace) :
            ( /\ first.trace[i].rule = r
              /\ first.trace[i].hook = hook
              /\ SeenIn(first.trace, i, first.seed) = GetResult(BoundStore(r), SharedKey) )
            => (should = first.trace[i].should /\ err = first.trace[i].err)

\* r.eval() with a hook that reads the store
EvalFn ==
    /\ At("eval")
    /\ IF "eval" \in hooked[Cur]
       THEN \E should \in BOOLEAN, err \in {NoErr} \cup UserErrs :
               /\ Replays(Cur, "eval", should, err)
               /\ EvalReturns(TRUE, should, err)
       ELSE EvalReturns(FALSE, DefaultResult("eval").should, DefaultResult("eval").err)
    /\ UNCHANGED <<store, other, ctxVars>>

\* r.preExecute(), r.execute(), r.postExecute() with hooks that read the
\* store; execute writes it
HookFn(hook) ==
    /\ At(hook)
    /\ IF hook \in hooked[Cur]
       THEN \E err \in {NoErr} \cup UserErrs :
               /\ Replays(Cur, hook, TRUE, err)
               /\ HookReturns(hook, TRUE, err)
       ELSE HookReturns(hook, FALSE, DefaultResult(hook).err)
    /\ IF hook # "execute" \/ hook \notin hooked[Cur] THEN UNCHANGED <<store, other>>
       ELSE IF context[Cur] = OtherContext
       THEN other' = SetMap(other, SharedKey, Cur) /\ store' = store
       ELSE store' = SetMap(store, SharedKey, Cur) /\ other' = other
    /\ UNCHANGED ctxVars

PreExecuteFn == HookFn("preExecute")
ExecuteFn == HookFn("execute")
PostExecuteFn == HookFn("postExecute")

\* the second call of RuleRunner, on the rules of the first
Rerun(rc) ==
    /\ runState = "returned"
    /\ ~first.ran
    /\ first' = [ran |-> TRUE, trace |-> trace, result |-> result,
                 seed |-> runArgs.store, store |-> store]
    /\ trace' = <<>>
    /\ RunnerCall(runArgs.strategy, runArgs.goCtx, rc, runArgs.rules)

\* stores seeded by the caller before the first Run
Seeds == {NewRuleContext, SetMap(NewRuleContext, SharedKey, Zero)}

InitRerun ==
    /\ \E types \in [Nodes -> {ChainRuleType, BestFirstRuleType}] :
         /\ NewBaseRule(types)
         /\ children \in BuiltForests(types)
    /\ InitIdle
    /\ \E seed \in Seeds : store = seed /\ other = seed
    /\ hooked = [n \in Nodes |-> HookNames]

NextRerun ==
    \/ /\ runState = "idle"
       /\ \E strategy \in {ChainRuleType, BestFirstRuleType},
             rules \in {rs \in RootLists : rs # <<>> /\ AllNonNil(rs)} :
             RuleRunner(strategy, Tok, CallerContext, rules)
    \/ Rerun(OtherContext)
    \/ Fire \/ EvalFn \/ PreExecuteFn \/ ExecuteFn \/ PostExecuteFn \/ RunChildren

SpecRerun == InitRerun /\ [][NextRerun]_vars

\* the second Run is under way or over, on the second store
SecondOnOther == first.ran /\ runArgs.ruleContext = OtherContext

\* C23: when the rules are run with store A and then with another store B,
\* every rule fired by the second Run is bound to B, every hook of the
\* second Run is invoked on a rule bound to B, and A keeps the contents it
\* had when the second Run was called.
C23_RerunOtherStore ==
    SecondOnOther =>
        /\ \A r \in Nodes : Fired(r) => context[r] = OtherContext
        /\ (stack # <<>> /\ Top.pc \in HookNames) => context[Cur] = OtherContext
        /\ store = runArgs.store
        /\ store = first.store

C23_Witness ==
    /\ SecondOnOther
    /\ Returned
    /\ \E i, j \in Idx : i < j /\ trace[i].hook = "execute" /\ trace[j].hook = "execute"
    /\ other # first.seed
    /\ store # first.seed

\* C24: with hooks that are functions of the store and a token that is not
\* signaled, a second Run of the same rules under the same strategy, on a
\* second store seeded like the first, invokes the same hooks in the same
\* order with the same results as the first Run (at any moment a prefix of
\* them), returns the same error, and leaves the second store with the
\* contents the first Run left in the first.
C24_Deterministic ==
    SecondOnOther =>
        /\ Len(trace) <= Len(first.trace)
        /\ trace = SubSeq(first.trace, 1, Len(trace))
        /\ Returned =>
              /\ trace = first.trace
              /\ result = first.result
              /\ other = first.store

C24_Witness ==
    /\ SecondOnOther
    /\ Returned
    /\ result \in UserErrs
    /\ Len(trace) >= 2 * MaxNodes
    /\ \E i \in Idx : trace[i].hook = "eval" /\ ~trace[i].should
    /\ other # first.seed

\* ------------------------------------------------ hooks that call the store
\* SpecHook: the goroutine that called RuleRunner calls Get, Set and Delete
\* on the bound store from inside its hooks (main.go:78), while the other
\* goroutines call the same methods of that store (part_000:41-53). A hook
\* returns once the store call it made has returned. The rules are built
\* with an eval and an execute hook (part_001:122-139); the hooks have
\* captured their rule and call OnPreExecuteWithError on it, with a
\* function or with nil, so that the preExecute hook of a rule is attached,
\* replaced or taken off while the rule is being fired, from inside
\* preExecute itself too.

\* the goroutine that calls RuleRunner
RunThread == CHOOSE t \in Threads : \A u \in Threads : t <= u

\* what a hook calls (main.go:78 and the accessors of rule.go:61-90)
HookCalls == {[op |-> o, key |-> SharedKey] : o \in {"Get", "Set", "Delete"}}
\* what the other goroutines call (part_003:34, part_000:45-49)
ExternalCalls == {[op |-> o, key |-> SharedKey] : o \in {"Get", "Set"}}

\* fire is at the call of a hook method of the rule being fired
AtHookCall == runState = "running" /\ stack # <<>> /\ Top.pc \in HookNames

\* a hook of the rule being fired is running: the goroutine of the Run is
\* in its body (pc "hook", or "done" after a store call) or in a store call
InHook == AtHookCall /\ threads[RunThread].pc # "idle"

\* r.eval(), r.preExecute(), r.execute(), r.postExecute() find the field
\* set and call the function (rule.go:169-172, 190-193, 212-215, 234-237)
HookEnter ==
    /\ AtHookCall
    /\ threads[RunThread].pc = "idle"
    /\ Top.pc \in hooked[Cur]
    /\ threads' = [threads EXCEPT ![RunThread] = [IdleThread EXCEPT !.pc = "hook"]]
    /\ UNCHANGED <<store, lastWrite, mu>>
    /\ ConcFrame

\* the running hook calls a method of the store
HookCall(c) ==
    /\ InHook
    /\ Call(RunThread, c)

\* another goroutine calls a method of the store
ExternalCall(t, c) ==
    /\ t # RunThread
    /\ Call(t, c)

\* the running hook calls r.OnPreExecuteWithError(f) on its rule; the
\* function that is running goes on, whatever the field holds now
HookSets(f) ==
    /\ InHook
    /\ threads[RunThread].pc \in {"hook", "done"}
    /\ OnPreExecuteWithError(Cur, f)

\* the hook is not inside a store call; its goroutine goes on in fire
HookDone ==
    /\ threads[RunThread].pc \in {"hook", "done"}
    /\ threads' = [threads EXCEPT ![RunThread] = IdleThread]
    /\ UNCHANGED <<store, other, lastWrite, out, mu, first, hooked>>

\* the field is nil: the method returns the default (rule.go:169-171)
HookNil(hook) ==
    /\ threads[RunThread].pc = "idle"
    /\ hook \notin hooked[Cur]
    /\ UNCHANGED <<threads, store, other, lastWrite, out, mu, first, hooked>>

\* r.eval() returns
EvalWithCalls ==
    /\ At("eval")
    /\ \/ /\ HookDone
          /\ \E should \in BOOLEAN : EvalReturns(TRUE, should, NoErr)
       \/ /\ HookNil("eval")
          /\ EvalReturns(FALSE, DefaultResult("eval").should, DefaultResult("eval").err)

\* r.preExecute(), r.execute(), r.postExecute() return
HookWithCalls(hook) ==
    /\ At(hook)
    /\ \/ /\ HookDone
          /\ HookReturns(hook, TRUE, NoErr)
       \/ /\ HookNil(hook)
          /\ HookReturns(hook, FALSE, DefaultResult(hook).err)

PreExecuteWithCalls == HookWithCalls("preExecute")
ExecuteWithCalls == HookWithCalls("execute")
PostExecuteWithCalls == HookWithCalls("postExecute")

\* Chain rules with no child, or with the second rule as the child of the
\* first (part_001:104-112)
InitHook ==
    /\ NewBaseRule([n \in Nodes |-> ChainRuleType])
    /\ children \in {[n \in Nodes |-> <<>>],
                      [n \in Nodes |-> IF n = 1 THEN <<2>> ELSE <<>>]}
    /\ InitCommon
    /\ hooked = [n \in Nodes |-> {"eval", "execute"}]

NextHook ==
    \/ /\ runState = "idle"
       /\ \E strategy \in {ChainRuleType, BestFirstRuleType} :
             RuleRunner(strategy, Tok, CallerContext, <<1>>)
    \/ Fire \/ RunChildren \/ HookEnter
    \/ EvalWithCalls \/ PreExecuteWithCalls \/ ExecuteWithCalls \/ PostExecuteWithCalls
    \/ \E c \in HookCalls : HookCall(c)
    \/ \E f \in Funcs : HookSets(f)
    \/ \E t \in Threads :
          \/ \E c \in ExternalCalls : ExternalCall(t, c)
          \/ Lock(t)
          \/ RLock(t)
          \/ Access(t)

SpecHook == InitHook /\ [][NextHook]_vars

\* goroutine t holds the lock of the store
Holds(t) == t \in mu.readers \/ mu.writer = t

\* goroutine t can take its next step
CanStep(t) ==
    \/ threads[t].pc = "holding"
    \/ /\ threads[t].pc = "waiting"
       /\ IF LockKind(threads[t].op) = "Lock" THEN CanLock(mu) ELSE CanRLock(mu)

\* C21: the store lock is held by a goroutine only between taking it and
\* the single map access of one store call, so never when a hook is entered
\* or returns; a goroutine waiting for the lock, the one running the hooks
\* included, can take it now or waits for a goroutine that is about to do
\* its map access and let go, and it never waits for itself; the goroutine
\* of a Run holds no lock while it is in fire or RuleRunner outside a store
\* call.
C21_NoLockAcrossHooks ==
    /\ \A t \in Threads : Holds(t) => threads[t].pc = "holding"
    /\ \A t \in Threads :
          threads[t].pc = "waiting" =>
              \/ CanStep(t)
              \/ \E u \in Threads \ {t} : Holds(u) /\ CanStep(u)
    /\ (runState = "running" /\ ~InHook) =>
          (threads[RunThread].pc = "idle" /\ ~Holds(RunThread))

C21_Witness ==
    /\ InHook
    /\ Top.pc = "execute"
    /\ Len(stack) > 1
    /\ threads[RunThread].pc = "waiting"
    /\ threads[RunThread].op = "Set"
    /\ \E u \in Threads \ {RunThread} : Holds(u) /\ threads[u].op = "Get"

\* ------------------------------------------------- two Runs on one store
\* SpecReuse: as SpecRerun, but the second Run is handed the store of the
\* first, with whatever the first Run left in it (part_003:53-67). The
\* store is in use before the first Run: the shared key is set. The rules
\* are built with an eval and an execute hook (part_001:122-139), and
\* between the two Runs the program attaches, replaces or takes off the
\* execute hook of a rule; a function put in place of another returns
\* what that one returned where that one was invoked.
InitReuse ==
    /\ \E types \in [Nodes -> {ChainRuleType, BestFirstRuleType}] :
         /\ NewBaseRule(types)
         /\ children \in BuiltForests(types)
    /\ InitIdle
    /\ store = SetMap(NewRuleContext, SharedKey, Zero)
    /\ other = NewRuleContext
    /\ hooked = [n \in Nodes |-> {"eval", "execute"}]

\* between the two Runs the program calls OnExecuteWithError, with a
\* function or with nil, on the rule it handed to RuleRunner first
SetBetween ==
    /\ runState = "returned"
    /\ ~first.ran
    /\ \E f \in Funcs : OnExecuteWithError(runArgs.rules[1], f)

NextReuse ==
    \/ /\ runState = "idle"
       /\ \E strategy \in {ChainRuleType, BestFirstRuleType},
             rules \in {rs \in RootLists : rs # <<>> /\ AllNonNil(rs)} :
             RuleRunner(strategy, Tok, CallerContext, rules)
    \/ Rerun(CallerContext)
    \/ SetBetween
    \/ Fire \/ EvalFn \/ PreExecuteFn \/ ExecuteFn \/ PostExecuteFn \/ RunChildren

SpecReuse == InitReuse /\ [][NextReuse]_vars

\* --------------------------------------------- a Chain tree and its twin
\* SpecTwin: the program builds a tree with one root in which every rule
\* has at most one child out of Chain rules and runs it under Chain
\* (part_001:45-102); then it builds the same tree out of BestFirst rules
\* with the same hooks and runs it under BestFirst on a second store seeded
\* like the first. The hooks are those of SpecRerun; rule n of the second
\* tree stands where rule n of the first stood.

\* the tree 1 -> 2 -> ... -> k, the other rules left alone
PathTree(k) == [n \in Nodes |-> IF n < k THEN <<n + 1>> ELSE <<>>]

InitTwin ==
    /\ NewBaseRule([n \in Nodes |-> ChainRuleType])
    /\ \E k \in Nodes : children = PathTree(k)
    /\ InitIdle
    /\ \E seed \in Seeds : store = seed /\ other = seed
    /\ hooked = [n \in Nodes |-> HookNames]

\* NewBestFirstRule for every rule, the same child lists and hooks, and
\* RuleRunner(BestFirstRuleType, ...) on the root with the second store
RunTwin ==
    /\ runState = "returned"
    /\ ~first.ran
    /\ first' = [ran |-> TRUE, trace |-> trace, result |-> result,
                 seed |-> runArgs.store, store |-> store]
    /\ trace' = <<>>
    /\ ruleType' = [n \in Nodes |-> BestFirstRuleType]
    /\ context' = [n \in Nodes |-> OwnContext(n)]
    /\ goContext' = [n \in Nodes |-> Background]
    /\ runArgs' = [strategy |-> BestFirstRuleType, goCtx |-> runArgs.goCtx,
                   ruleContext |-> OtherContext, rules |-> runArgs.rules,
                   canceled |-> canceled, store |-> store]
    /\ LET e == RunnerEntry(BestFirstRuleType, OtherContext, runArgs.rules)
       IN IF e.returns
          THEN Resume([stack |-> <<>>, returned |-> TRUE, err |-> e.err])
          ELSE Resume([stack |-> <<Frame(BestFirstRuleType, runArgs.goCtx,
                                         OtherContext, runArgs.rules)>>,
                       returned |-> FALSE, err |-> NoErr])
    /\ UNCHANGED <<children, lastCall, canceled, store, other, lastWrite, out,
                   threads, mu, hooked>>

NextTwin ==
    \/ /\ runState = "idle"
       /\ RuleRunner(ChainRuleType, Tok, CallerContext, <<1>>)
    \/ RunTwin
    \/ Fire \/ EvalFn \/ PreExecuteFn \/ ExecuteFn \/ PostExecuteFn \/ RunChildren

SpecTwin == InitTwin /\ [][NextTwin]_vars

\* ------------------------------------------------- rules with another tag
\* SpecOther: NewBaseRule takes any RuleType (rule.go:485-498), so a rule
\* can carry a tag that is neither Chain nor BestFirst (part_000:249,
\* RuleType(999)). Here at least one rule does; those rules have their four
\* hooks, the others none. The program attaches further children to the
\* rules with the other tag and then runs the forest.

\* lists of one or two distinct rules after r that are nobody's child yet
FreshLists(r) ==
    LET free == {k \in Nodes : k > r /\ ~IsChild(children, k)}
    IN {<<a>> : a \in free} \cup {ab \in free \X free : ab[1] # ab[2]}

InitOther ==
    /\ \E types \in [Nodes -> {ChainRuleType, BestFirstRuleType, OtherRuleType}] :
         /\ \E n \in Nodes : types[n] = OtherRuleType
         /\ NewBaseRule(types)
         /\ children \in BuiltForests(types)
         /\ hooked = [n \in Nodes |-> IF types[n] = OtherRuleType THEN HookNames ELSE {}]
    /\ InitCommon

NextOther ==
    \/ \E r \in {n \in Nodes : ruleType[n] = OtherRuleType} :
          \E rules \in FreshLists(r) : AddChildren(r, rules)
    \/ /\ runState = "idle"
       /\ \E strategy \in {ChainRuleType, BestFirstRuleType},
             rules \in {rs \in RootLists : rs # <<>> /\ AllNonNil(rs)} :
             RuleRunner(strategy, Tok, CallerContext, rules)
    \/ Fire \/ Eval \/ PreExecute \/ Execute \/ PostExecute \/ RunChildren \/ Cancel

SpecOther == InitOther /\ [][NextOther]_vars

\* ------------------------------------------------------------ termination
\* SpecLoop: one Run over a forest, or over a ring of rules as AddChildren
\* builds it without complaint (rule.go:272-285 has no check for a rule
\* that becomes its own descendant): r1.AddChildren(r2), ...,
\* rk.AddChildren(r1). The goroutine of the Run keeps running and every
\* hook returns, so a Run that can take a step eventually takes it. The
\* recursion over a ring has no bound in the code: it goes on for as long
\* as the eval hooks say yes. The hooks of the model say yes fewer than
\* MaxDepth times in a row, so that a Run on a ring fires up to MaxDepth
\* rules. The rules are all made by NewChainRule or all by
\* NewBestFirstRule.

\* number of nested fire calls a Run on a ring is followed to
MaxDepth == 8

\* rule n has rule n+1 as its only child, rule k has rule 1
Ring(k) ==
    [n \in Nodes |-> IF n < k THEN <<n + 1>> ELSE IF n = k THEN <<1>> ELSE <<>>]

\* the rules at most n steps below r
RECURSIVE Below(_, _)
Below(r, n) ==
    IF n = 0 THEN {}
    ELSE UNION {{children[r][i]} \cup Below(children[r][i], n - 1) :
                    i \in 1..Len(children[r])}

\* no rule is its own descendant
Acyclic == \A r \in Nodes : r \notin Below(r, MaxNodes)

InitLoop ==
    /\ \E types \in [Nodes -> {ChainRuleType, BestFirstRuleType}] :
         /\ \A n, m \in Nodes : types[n] = types[m]
         /\ NewBaseRule(types)
         /\ \/ children \in BuiltForests(types)
            \/ \E k \in 1..MaxEdges : children = Ring(k)
    /\ InitCommon
    /\ hooked = [n \in Nodes |-> HookNames]

\* r.eval() (rule.go:168-173) with an eval hook that declines or fails
\* once the recursion is MaxDepth calls deep
EvalLoop ==
    /\ Eval
    /\ Len(stack) >= MaxDepth =>
          LET e == trace'[Len(trace')] IN ~(e.should /\ e.err = NoErr)

RunLoop ==
    /\ runState = "idle"
    /\ \E strategy \in {ChainRuleType, BestFirstRuleType},
          rules \in IF Acyclic
                    THEN {rs \in RootLists : rs # <<>> /\ AllNonNil(rs)}
                    ELSE {<<1>>} :
          RuleRunner(strategy, Tok, CallerContext, rules)

\* the steps of the goroutine that called RuleRunner
StepLoop == Fire \/ EvalLoop \/ PreExecute \/ Execute \/ PostExecute \/ RunChildren

NextLoop == RunLoop \/ StepLoop \/ Cancel

SpecLoop == InitLoop /\ [][NextLoop]_vars /\ WF_vars(StepLoop)

\* ------------------------------------------------------ rules without hooks
\* SpecNil: rules built by NewBaseRule with no option have nil hook fields
\* (rule.go:485-498). Between its calls of RuleRunner the program attaches
\* hooks, one call at a time and in any order, to one of the rules at most,
\* and takes them off again by handing nil to a WithError setter. Nobody
\* signals the token.
InitNil ==
    /\ \E types \in [Nodes -> {ChainRuleType, BestFirstRuleType}] :
         /\ NewBaseRule(types)
         /\ children \in BuiltForests(types)
    /\ InitCommon
    /\ hooked = [n \in Nodes |-> {}]

\* an On* call on a rule while no other rule has a hook
AttachToOne ==
    \E r \in Nodes :
        /\ \A m \in Nodes \ {r} : hooked[m] = {}
        /\ \E f \in Funcs : SetAny(r, f)

NextNil ==
    \/ /\ runState = "idle"
       /\ \E strategy \in Strategies, rules \in RootLists :
             RuleRunner(strategy, Tok, CallerContext, rules)
    \/ /\ runState = "idle"
       /\ AttachToOne
    \/ Fire \/ Eval \/ PreExecute \/ Execute \/ PostExecute \/ RunChildren

SpecNil == InitNil /\ [][NextNil]_vars

Hookless(r) == hooked[r] = {}
\* the rules a Run over `rules` can reach
InRun(rules) ==
    UNION {{rules[i]} \cup Descendants(rules[i]) : i \in {j \in 1..Len(rules) : rules[j] # Nil}}

\* C25: a rule with no hook attached behaves as one whose eval returns
\* (true, no error) and whose pre-execute, execute and post-execute do
\* nothing: once fired (token not cancelled) its children are run, no hook
\* of it is invoked, and a Run over rules that are all hookless returns no
\* error under Chain and under BestFirst.
C25_NilHooks ==
    (Returned /\ ~canceled) =>
        /\ \A r \in Nodes :
              (Hookless(r) /\ Fired(r)) =>
                  /\ ~AnyHookOf(r)
                  /\ children[r] # <<>> => Fired(children[r][1])
        /\ ( /\ RunnerEntry(runArgs.strategy, runArgs.ruleContext, runArgs.rules).err = NoErr
             /\ \A r \in InRun(runArgs.rules) : Hookless(r) )
           => result = NoErr

C25_Witness ==
    /\ Returned
    /\ ~canceled
    /\ result = NoErr
    /\ runArgs.strategy = BestFirstRuleType
    /\ \A r \in Nodes : Hookless(r)
    /\ Len(trace) = MaxNodes
    /\ \E r \in Nodes : children[r] # <<>> /\ Fired(r) /\ Fired(children[r][1])

\* ------------------------------------------------------ claims C31 to C39
\* the hook fire invokes after hook h returned without error
HookAfter(h) ==
    IF h = "eval" THEN "preExecute"
    ELSE IF h = "preExecute" THEN "execute"
    ELSE "postExecute"

\* C31: cancellation is looked at only when a rule is fired. A token that
\* is signaled stays signaled; with the token signaled, the hook that is
\* due is still invoked, and when it returns without error (eval with
\* true) the next hook of the same rule is due; the Run returns the
\* cancellation error only from the step that fires a rule.
C31_CooperativeCancel ==
    [][ /\ canceled => canceled'
        /\ (runState = "running" /\ runState' = "returned" /\ result' = Canceled)
              => (At("fire") /\ canceled)
        /\ \A h \in HookNames :
              ( /\ At(h)
                /\ canceled
                /\ runArgs.goCtx = Tok
                /\ <<stack, runState>>' # <<stack, runState>> )
              => /\ Len(trace') = Len(trace) + 1
                 /\ trace'[Len(trace')].rule = Cur
                 /\ trace'[Len(trace')].hook = h
                 /\ ( /\ trace'[Len(trace')].err = NoErr
                      /\ trace'[Len(trace')].should
                      /\ h # "postExecute" )
                    => /\ runState' = "running"
                       /\ Len(stack') = Len(stack)
                       /\ stack'[Len(stack')] = [Top EXCEPT !.pc = HookAfter(h)]
      ]_vars

C31_Witness ==
    /\ Returned
    /\ result = Canceled
    /\ ~runArgs.canceled
    /\ Len(trace) > 5
    /\ trace[Len(trace)].hook = "fire"
    /\ trace[Len(trace) - 1] = Event(trace[Len(trace) - 1].rule, "postExecute", TRUE, NoErr)

\* the last hook that rule r has returned without error (post-execute,
\* when the rule has it)
Executed(r) == \E i \in Idx : trace[i] = WentOn(r, LastHook(r))

\* C32: in a tree of BestFirst-tagged rules the traversal is depth first.
\* Nothing of a rule's descendants happens before the rule's post-execute
\* has returned, and after it only descendants of the rule are touched; a
\* child is fired only after every child before it declined; and when the
\* Run returns without error the children of an executed rule were tried
\* in order up to the first that did not decline.
C32_DepthFirst ==
    (\A n \in Nodes : ruleType[n] = BestFirstRuleType) =>
        /\ \A i, j \in Idx :
              (i < j /\ trace[i] = WentOn(trace[i].rule, LastHook(trace[i].rule)))
              => trace[j].rule \in Descendants(trace[i].rule)
        /\ \A i \in Idx : \A r \in Nodes :
              trace[i].rule \in Descendants(r)
              => \E j \in 1..(i - 1) : trace[j] = WentOn(r, LastHook(r))
        /\ \A r \in Nodes : \A a, b \in 1..Len(children[r]) :
              (a < b /\ Fired(children[r][b])) => EvalReturned(children[r][a], FALSE)
        /\ (Returned /\ result = NoErr) =>
              \A r \in Nodes :
                  (Executed(r) /\ children[r] # <<>>) =>
                      /\ Fired(children[r][1])
                      /\ \A a \in 1..(Len(children[r]) - 1) :
                            EvalReturned(children[r][a], FALSE) => Fired(children[r][a + 1])

C32_Witness ==
    /\ \A n \in Nodes : ruleType[n] = BestFirstRuleType
    /\ Returned
    /\ result = NoErr
    /\ \E r \in Nodes :
          /\ Executed(r)
          /\ Len(children[r]) > 1
          /\ EvalReturned(children[r][1], FALSE)
          /\ Executed(children[r][2])

\* the lists of siblings of the Run: the rules handed to the top-level
\* call and every rule's child list
SiblingLists ==
    (IF Called THEN {runArgs.rules} ELSE {}) \cup {children[p] : p \in Nodes}

\* C33: BestFirst does not backtrack. Once a BestFirst-tagged rule has
\* executed (its eval returned true and pre-execute was invoked), no sibling
\* after it is fired in that Run, whether it has children or not and
\* whatever its children did.
C33_NoBacktrack ==
    \A rs \in SiblingLists : \A i, j \in 1..Len(rs) :
        ( /\ i < j
          /\ rs[i] # Nil
          /\ rs[j] # Nil
          /\ ruleType[rs[i]] = BestFirstRuleType
          /\ Executes(rs[i]) )
        => ~Fired(rs[j])

\* a BestFirst-tagged rule executed, each of its children declined, the
\* Run returned without error and the rule's next sibling was not fired
C33_Witness ==
    /\ Returned
    /\ result = NoErr
    /\ \E rs \in SiblingLists : \E i \in 1..(Len(rs) - 1) :
          /\ rs[i] # Nil
          /\ rs[i + 1] # Nil
          /\ ruleType[rs[i]] = BestFirstRuleType
          /\ Executed(rs[i])
          /\ children[rs[i]] # <<>>
          /\ \A k \in 1..Len(children[rs[i]]) : EvalReturned(children[rs[i]][k], FALSE)
          /\ ~Fired(rs[i + 1])

\* C34: binding is per rule and happens when the rule is fired. A rule
\* that has not been fired in the Run (a sibling after the one that
\* executed, a child of a rule that was skipped, any rule of a Run that
\* validation rejected) still has the store and the context it had before
\* the Run, those of its construction.
C34_LazyBinding ==
    \A r \in Nodes :
        ~Fired(r) => (context[r] = OwnContext(r) /\ goContext[r] = Background)

\* a BestFirst Run returned without error: the first rule was skipped and
\* its child never fired, the second executed, and both unfired rules keep
\* their bindings while the fired ones are bound to the caller's store
C34_Witness ==
    /\ Returned
    /\ result = NoErr
    /\ runArgs.strategy = BestFirstRuleType
    /\ runArgs.ruleContext = CallerContext
    /\ \E r \in Nodes :
          /\ EvalReturned(r, FALSE)
          /\ context[r] = CallerContext
          /\ children[r] # <<>>
          /\ ~Fired(children[r][1])
          /\ context[children[r][1]] = OwnContext(children[r][1])
    /\ \E i \in 1..Len(runArgs.rules) :
          /\ i > 1
          /\ Executed(runArgs.rules[i])

\* the top-level call returned err at once, nothing bound and nothing fired
Rejected(err) == Returned /\ result = err /\ Untouched

\* C38: RuleRunner validates in a fixed order before it binds or fires
\* anything. A nil store gives ErrNilRuleContext whatever the list and the
\* strategy; otherwise an empty list succeeds, for an unknown strategy too;
\* otherwise a nil entry gives the ErrNilRule error naming the first nil
\* position, also for a Chain call with more than one rule; only then does
\* a Chain call with more than one rule give ErrChainRuleMultipleRules and
\* an unknown strategy ErrInvalidRuleType.
C38_ValidationOrder ==
    Called =>
        LET a == runArgs
            known == a.strategy \in {ChainRuleType, BestFirstRuleType}
        IN IF a.ruleContext = Nil THEN Rejected(ErrNilRuleContext)
           ELSE IF a.rules = <<>> THEN Rejected(NoErr)
           ELSE IF ~AllNonNil(a.rules)
           THEN Rejected(ErrNilRuleAt(FirstNil(a.rules))) /\ result.base = ErrNilRule.base
           ELSE IF a.strategy = ChainRuleType /\ Len(a.rules) > 1
           THEN Rejected(ErrChainRuleMultipleRules)
           ELSE IF ~known THEN Rejected(ErrInvalidRuleType)
           ELSE Returned => (trace # <<>> /\ trace[1] = Event(a.rules[1], "fire", FALSE, NoErr))

\* an unknown strategy, a store, and a list whose second entry is nil
C38_Witness ==
    /\ Returned
    /\ runArgs.strategy = OtherRuleType
    /\ runArgs.ruleContext = CallerContext
    /\ Len(runArgs.rules) > 1
    /\ runArgs.rules[1] # Nil
    /\ runArgs.rules[2] = Nil
    /\ result = ErrNilRuleAt(1)

\* contents of a store that held seed after the execute hooks of trace tr
\* wrote to it, in the order of tr
Written(tr, seed) ==
    LET writes == {j \in 1..Len(tr) : tr[j].hook = "execute"}
    IN IF writes = {} THEN seed
       ELSE SetMap(seed, SharedKey,
                   tr[CHOOSE j \in writes : \A k \in writes : k <= j].rule)

\* C35: the runner itself never writes the store. At every moment of a Run
\* the store holds what it held when the Run was called, changed by the
\* writes of the hooks invoked so far and nothing else, in their order,
\* also when a hook returned an error after writing; a second Run handed
\* the same store starts on what the first Run left and goes on from there.
C35_StoreReused ==
    Called =>
        /\ store = Written(trace, runArgs.store)
        /\ first.ran =>
              /\ first.store = Written(first.trace, first.seed)
              /\ runArgs.store = first.store
              /\ store = Written(first.trace \o trace, first.seed)

\* the first Run wrote and failed in an execute hook, the second Run saw
\* that write and wrote again
C35_Witness ==
    /\ first.ran
    /\ Returned
    /\ first.result \in UserErrs
    /\ first.trace[Len(first.trace)].hook = "execute"
    /\ first.store # first.seed
    /\ \E i \in Idx : trace[i].hook = "execute"
    /\ store # first.store

\* C37: on a tree with one root in which every rule has at most one child,
\* the Chain Run over Chain-tagged rules and the BestFirst Run over
\* BestFirst-tagged rules, with the same hooks and stores seeded alike,
\* invoke the same hooks in the same order with the same results (the
\* second Run's trace is at any moment a prefix of the first's), return the
\* same error and leave the same contents in their stores.
C37_ChainAsBestFirst ==
    first.ran =>
        /\ runArgs.strategy = BestFirstRuleType
        /\ \A n \in Nodes : ruleType[n] = BestFirstRuleType
        /\ Len(trace) <= Len(first.trace)
        /\ trace = SubSeq(first.trace, 1, Len(trace))
        /\ Returned =>
              /\ trace = first.trace
              /\ result = first.result
              /\ other = first.store

\* both Runs went down to the last rule of the longest tree, which failed
\* in post-execute
C37_Witness ==
    /\ first.ran
    /\ Returned
    /\ Len(trace) = 5 * MaxNodes
    /\ result \in UserErrs
    /\ other # first.seed

OtherTagged(r) == ruleType[r] \notin {ChainRuleType, BestFirstRuleType}

\* C39: firing a rule whose tag is neither Chain nor BestFirst ends the
\* Run at once: the fire is the last event, the Run returns
\* ErrInvalidRuleType, or the cancellation error when the token was
\* signaled by then, and no hook of the rule and none of its children is
\* touched. AddChildren on such a rule succeeds however many children the
\* rule has (every AddChildren call of SpecOther is on such a rule, with
\* rules that are not nil).
C39_InvalidTag ==
    /\ \A i \in Idx :
          (trace[i].hook = "fire" /\ OtherTagged(trace[i].rule)) =>
              /\ i = Len(trace)
              /\ Returned
              /\ result = IF canceled /\ runArgs.goCtx = Tok
                          THEN Canceled ELSE ErrInvalidRuleType
    /\ \A r \in Nodes :
          OtherTagged(r) =>
              /\ ~AnyHookOf(r)
              /\ \A k \in 1..Len(children[r]) : ~Fired(children[r][k])
    /\ lastCall.op = "AddChildren" => lastCall.err = NoErr

\* a rule with the other tag was given children by AddChildren, has more
\* than one, and was fired; the token was not signaled
C39_Witness ==
    /\ Returned
    /\ ~canceled
    /\ result = ErrInvalidRuleType
    /\ lastCall.op = "AddChildren"
    /\ \E r \in Nodes :
          /\ OtherTagged(r)
          /\ Len(children[r]) > 1
          /\ Fired(r)

\* number of fire calls so far
FireCount == Cardinality({i \in Idx : trace[i].hook = "fire"})
\* some eval said no, or the Run ended with an error
Stopped ==
    \/ result # NoErr
    \/ \E i \in Idx : trace[i].hook = "eval" /\ ~trace[i].should

\* C36: a Run over a forest with no rule its own descendant fires each
\* of the rules it can reach at most once, so never more rules than the
\* forest has, and it eventually returns. A Run on a ring of rules returns
\* only when a hook stops it (an eval says no, a hook fails) or the token is
\* signaled: while it runs, every fire so far is still waiting for its
\* children, one RuleRunner call deeper each, with no limit but the hooks'
\* answers.
C36_Terminates ==
    /\ [](Acyclic =>
            /\ FireCount <= Cardinality(InRun(runArgs.rules))
            /\ \A i, j \in Idx :
                  (trace[i].hook = "fire" /\ trace[j].hook = "fire"
                   /\ trace[i].rule = trace[j].rule) => i = j)
    /\ ((Acyclic /\ runState = "running") ~> Returned)
    /\ []((~Acyclic /\ Returned) => Stopped)
    /\ []((~Acyclic /\ runState = "running") => Len(stack) >= FireCount)

\* a Run over a forest of MaxNodes rules fired every one of them and
\* returned nil
C36_Witness ==
    /\ Acyclic
    /\ Returned
    /\ result = NoErr
    /\ FireCount = MaxNodes
    /\ \E r \in Nodes : children[r] # <<>>
====
